---- MODULE Spec2Model ----
(***************************************************************************)
(* WhispurrNet: the connection manager (WhispurrNode, Node.ts), the        *)
(* protocol helpers (Protocol.ts, utils/entropy.ts) and the gossip /       *)
(* resonance orchestrator (Whispurr, Whispurr.ts) as a state machine.      *)
(*                                                                         *)
(* Time is counted in units of 100 000 ms.  A node id is a short name; its *)
(* characters, as validateNodeId reads them, are IdChars(id).  A public    *)
(* key is named after the node that owns the key pair.  A payload is the   *)
(* plaintext plus the list of public keys it was encrypted under, in the   *)
(* order sendMessage applied them.                                         *)
(***************************************************************************)
EXTENDS Integers, Sequences, FiniteSets, TLC

(* ---------------------------------------------------------------- bounds *)
MaxTime == 3
MaxMsgs == 2
MaxCalls == 2
MaxRelays == 1
MessageTTL == 1
MaxBroadcasts == 1
MaxHopsArg == 2
RingHopsArg == 1
MaxPriv == 2
MaxWire == 2
MaxTimers == 2
MaxConnections == 1

(* ------------------------------------------------------ program constants *)
DefaultTTL == 3
DefaultMaxHops == 10
MaxConcurrentGossip == 5
GossipFanout == 3
ResonanceThreshold == 5
FullStrength == 10
EntropyHexLen == 32
IVLength == 12
PingTTL == 1

(* ------------------------------------------------------------ identities *)
Nodes == {"A", "B", "C", "D"}
Actors == {"A", "B"}
BadIds == {"short", "upper", "nots", "twocolon"}
Ids == Nodes \cup BadIds
Keys == Nodes
NoId == "undefined"
Exts == {"e1", "e2"}
Contents == {"hello"}
Intents == {"mining:coord"}
Strengths == {4, 9}

HexChars == {"0", "1", "2", "3", "4", "5", "6", "7", "8", "9",
             "a", "b", "c", "d", "e", "f"}

Rep(c, n) == [i \in 1..n |-> c]

IdChars(id) ==
    CASE id = "A" -> Rep("a", EntropyHexLen) \o <<":", "1", "8", "c">>
      [] id = "B" -> Rep("b", EntropyHexLen) \o <<":", "1", "8", "d">>
      [] id = "C" -> Rep("c", EntropyHexLen) \o <<":", "0">>
      [] id = "D" -> Rep("d", EntropyHexLen) \o <<":", "f", "f">>
      [] id = "short" -> Rep("a", EntropyHexLen - 1) \o <<":", "1">>
      [] id = "upper" -> Rep("A", EntropyHexLen) \o <<":", "1">>
      [] id = "nots" -> Rep("a", EntropyHexLen) \o <<":">>
      [] id = "twocolon" -> Rep("a", EntropyHexLen) \o <<":", "1", ":", "1">>
      [] OTHER -> <<>>

(* String.prototype.split(':') *)
RECURSIVE SplitColon(_)
SplitColon(s) ==
    IF \A i \in 1..Len(s) : s[i] # ":"
    THEN <<s>>
    ELSE LET k == CHOOSE i \in 1..Len(s) :
                      s[i] = ":" /\ \A j \in 1..(i - 1) : s[j] # ":"
         IN <<SubSeq(s, 1, k - 1)>> \o SplitColon(SubSeq(s, k + 1, Len(s)))

AllHex(s) == \A i \in 1..Len(s) : s[i] \in HexChars

validateNodeIdAnyLength(s) ==
    LET parts == SplitColon(s)
    IN /\ Len(parts) = 2
       /\ Len(parts[1]) >= 1 /\ AllHex(parts[1])
       /\ Len(parts[2]) >= 1 /\ AllHex(parts[2])

validateNodeId(s) ==
    LET parts == SplitColon(s)
    IN /\ Len(parts) = 2
       /\ Len(parts[1]) = EntropyHexLen /\ AllHex(parts[1])
       /\ Len(parts[2]) >= 1 /\ AllHex(parts[2])

(* ------------------------------------------------------------------ state *)
VARIABLES
    peers,            \* WhispurrNode.peers: node -> id -> PeerInfo
    peerOrder,        \* the insertion order of the peers map: node -> sequence of ids
    connections,      \* WhispurrNode.connections: node -> id -> "none" | "rtc" | "ws"
    sockets,          \* the transports a node holds open, per peer id
    heartbeatTimers,  \* WhispurrNode.heartbeatTimers: node -> set of ids
    relayServers,     \* config.relayServers: node -> number of endpoints
    extensions,       \* Whispurr.extensions: node -> extension ids, in map order
    gossipQueue,      \* Whispurr.gossipQueue: node -> sequence of records
    messageHistory,   \* Whispurr.messageHistory: node -> (<<sender, nonce>> -> time)
    links,            \* relay traffic in flight: <<from, to>> -> sequence of envelopes
    now,              \* Date.now()
    nextNonce,        \* the next crypto.randomUUID()
    calls,            \* connection-management calls made so far
    extCalls,         \* node -> (<<ext, sender, nonce>> -> handleMessage invocations)
    resonated,        \* nonce -> the strength argument resonate() was called with
    delivered,        \* what the last step's receive handler did
    ret,              \* what the last step's API call returned
    emitted,          \* the events the last step emitted through emitEvent
    keyPair,          \* WhispurrNode.keyPair: node -> [privateKey, publicKey]
    wire,             \* encrypted payloads produced and not yet decrypted
    decrypted,        \* what the last decryptMessage call returned
    intervals,        \* the setInterval heartbeats scheduled: node -> id -> how many
    isShuttingDown,   \* WhispurrNode.isShuttingDown
    isInitialized,    \* Whispurr.isInitialized: handlers and gossip timer installed
    extObject,        \* which extension object an id maps to: node -> id -> version, 0 if none
    activeExtensions, \* stats.activeExtensions: node -> sequence of ids
    extInitialized,   \* node -> the <<id, version>> objects whose initialize() ran
    cleanupCalls,     \* node -> id -> cleanup() invocations
    throwing,         \* node -> the ids whose handleMessage and cleanup throw
    enableAutoPropagation, \* config.gossip.enableAutoPropagation of each node
    messagesSent,     \* stats.messagesSent of each node
    roundTrip,        \* the last record created, and what came back from the wire format
    pmPeers,          \* PeerManager.peers: id -> record
    pmOrder,          \* the insertion order of PeerManager.peers
    pmWire,           \* PeerManager messages in flight, in the order sent
    pmRemote,         \* peer -> the record that peer's PeerManager holds for A
    tasks,            \* node B's receive callbacks in flight, one per arrived record
    asyncLog,         \* what those callbacks have invoked or sent, in order
    validation,       \* a record given to validateMessage, and the result
    startup           \* node -> what Whispurr.initialize() has installed and scheduled

netVars == <<peers, peerOrder, connections, sockets, heartbeatTimers, relayServers,
             extensions, gossipQueue, messageHistory, links, now, nextNonce, calls,
             extCalls, resonated, delivered, ret, emitted>>

cryptoVars == <<keyPair, wire, decrypted>>

extVars == <<isShuttingDown, isInitialized, extObject, activeExtensions,
             extInitialized, cleanupCalls, throwing>>

asyncVars == <<tasks, asyncLog>>

pmVars == <<pmPeers, pmOrder, pmWire, pmRemote>>

auxVars == <<enableAutoPropagation, roundTrip, pmVars, asyncVars, validation>>

vars == <<netVars, cryptoVars, intervals, extVars, auxVars, messagesSent, startup>>

(* what initialize() has left behind on a node: the sets of node handlers
   installed by setupEventHandlers and setupMessageHandlers, the gossip and
   obfuscation intervals scheduled, and whether the handle the object holds
   in gossipTimer / obfuscationTimer is one of those still scheduled *)
NotStarted == [handlerSets |-> 0, gossipScheduled |-> 0, gossipHeld |-> FALSE,
               obfuscationScheduled |-> 0, obfuscationHeld |-> FALSE]

(* a node whose initialize() completed once, from a fresh object *)
Started(auto) ==
    [handlerSets |-> 1,
     gossipScheduled |-> IF auto THEN 1 ELSE 0, gossipHeld |-> auto,
     obfuscationScheduled |-> 1, obfuscationHeld |-> TRUE]

NoPeer == [state |-> "absent", type |-> "none", publicKey |-> "none", lastSeen |-> 0]
NoRet == [op |-> "none", node |-> "none", peer |-> "none", result |-> "none"]
NoDelivery == [to |-> "none", from |-> "none", msg |-> "none", handled |-> FALSE,
               enq |-> FALSE, fwd |-> 0, ext |-> 0, after |-> "none",
               ponged |-> FALSE, pongPayload |-> ""]

SendingStates == {"connected", "relaying"}

Known(n, p) == peers[n][p].state # "absent"

(* --------------------------------------------------------------- Protocol *)
CoreTypes == {"whisper", "broadcast", "resonance", "ping", "pong"}
MessageTypes == CoreTypes \cup {"file_sync", "mining_signal", "dreamspace",
                                "hello", "goodbye", "error"}

(* JavaScript's a || b on numbers: 0 is falsy *)
OrElse(a, b) == IF a = 0 THEN b ELSE a

BaseMessage(type, senderId, content, ttlOpt, nonce, t) ==
    [type |-> type, senderId |-> senderId, pt |-> content, enc |-> <<>>,
     timestamp |-> t, ttl |-> OrElse(ttlOpt, DefaultTTL), nonce |-> nonce,
     targetId |-> NoId, maxHops |-> 0, currentHops |-> 0, seenBy |-> <<>>,
     intent |-> "", strength |-> 0]

(* createMessage: options that are absent are passed as 0 / NoId / "" *)
createMessage(type, senderId, content, ttlOpt, targetId, maxHopsOpt, intentOpt, nonce, t) ==
    LET base == BaseMessage(type, senderId, content, ttlOpt, nonce, t)
        intent == IF intentOpt = "" THEN "default" ELSE intentOpt
    IN CASE type = "whisper" -> [base EXCEPT !.targetId = targetId]
         [] type = "broadcast" ->
              [base EXCEPT !.maxHops = OrElse(maxHopsOpt, DefaultMaxHops),
                           !.currentHops = 0,
                           !.seenBy = <<senderId>>]
         [] type = "resonance" ->
              [base EXCEPT !.intent = intent, !.strength = FullStrength]
         [] OTHER -> base

isMessageExpired(m, t) == t - m.timestamp > m.ttl

PayloadEmpty(m) == m.pt = "" /\ m.enc = <<>>

validateMessage(m, t) ==
    /\ m.type \in MessageTypes
    /\ m.senderId # NoId
    /\ ~PayloadEmpty(m)
    /\ m.timestamp # 0
    /\ m.ttl # 0 /\ m.ttl >= 0
    /\ ~(t - m.timestamp > m.ttl)
    /\ (m.type = "whisper" => m.targetId # NoId)
    /\ (m.type = "broadcast" => m.maxHops >= 0 /\ m.currentHops >= 0)
    /\ (m.type = "resonance" =>
            m.intent # "" /\ m.strength >= 0 /\ m.strength <= FullStrength)

Range(s) == {s[i] : i \in 1..Len(s)}

(* ------------------------------------------------- WhispurrNode: sending *)
getConnectedPeers(n) == {p \in Ids : peers[n][p].state \in SendingStates}

(* sendMessage passes its two guards and encrypts (mutating the record) *)
SendEncrypts(n, p) ==
    /\ Known(n, p)
    /\ connections[n][p] # "none"
    /\ peers[n][p].state \in SendingStates

SendAcceptedUngated(n, p) == sockets[n][p] # "none"

(* ... and hands the bytes to an open relay socket; a direct connection
   returns false after the payload was encrypted *)
SendAccepted(n, p) ==
    SendEncrypts(n, p) /\ connections[n][p] = "ws" /\ sockets[n][p] = "ws"

Envelope(m, via, t) == [msg |-> m, via |-> via, sentAt |-> t]

RECURSIVE SendAllCountingAttempts(_, _, _, _, _)
SendAllCountingAttempts(n, m, targets, L, via) ==
    IF targets = <<>>
    THEN [msg |-> m, links |-> L, ok |-> 0]
    ELSE LET p == Head(targets)
             m1 == IF SendEncrypts(n, p)
                   THEN [m EXCEPT !.enc = Append(@, peers[n][p].publicKey)]
                   ELSE m
             acc == SendAccepted(n, p)
             L1 == IF acc /\ p \in Nodes
                   THEN [L EXCEPT ![<<n, p>>] = Append(@, Envelope(m1, via, now))]
                   ELSE L
             r == SendAllCountingAttempts(n, m1, Tail(targets), L1, via)
         IN [msg |-> r.msg, links |-> r.links, ok |-> r.ok + 1]

(* sendMessage(p, m) for each p of targets in turn, on the one record m *)
RECURSIVE SendAll(_, _, _, _, _)
SendAll(n, m, targets, L, via) ==
    IF targets = <<>>
    THEN [msg |-> m, links |-> L, ok |-> 0]
    ELSE LET p == Head(targets)
             m1 == IF SendEncrypts(n, p)
                   THEN [m EXCEPT !.enc = Append(@, peers[n][p].publicKey)]
                   ELSE m
             acc == SendAccepted(n, p)
             L1 == IF acc /\ p \in Nodes
                   THEN [L EXCEPT ![<<n, p>>] = Append(@, Envelope(m1, via, now))]
                   ELSE L
             r == SendAll(n, m1, Tail(targets), L1, via)
         IN [msg |-> r.msg, links |-> r.links,
             ok |-> r.ok + (IF acc THEN 1 ELSE 0)]

(* the injective sequences of length k over S *)
RECURSIVE Orders(_, _)
Orders(S, k) ==
    IF k = 0 \/ S = {}
    THEN {<<>>}
    ELSE UNION {{<<x>> \o o : o \in Orders(S \ {x}, k - 1)} : x \in S}

Min(a, b) == IF a < b THEN a ELSE b

(* selectGossipTargets(connectedPeers, 3): a random shuffle, then a prefix *)
selectGossipTargets(n) ==
    LET cp == getConnectedPeers(n)
    IN Orders(cp, Min(GossipFanout, Cardinality(cp)))

(* broadcastMessage iterates the peers map in insertion order and sends to
   the peers in a sending state *)
RECURSIVE FilterSending(_, _)
FilterSending(n, order) ==
    IF order = <<>> THEN <<>>
    ELSE (IF peers[n][Head(order)].state \in SendingStates
          THEN <<Head(order)>> ELSE <<>>) \o FilterSending(n, Tail(order))

BroadcastOrder(n) == FilterSending(n, peerOrder[n])

(* processGossipQueue after its two early returns: the outcomes of sending
   each record of the batch to its targets, as the set of resulting links *)
RECURSIVE GossipOutcomes(_, _, _)
GossipOutcomes(n, batch, L) ==
    IF batch = <<>>
    THEN {L}
    ELSE UNION {GossipOutcomes(n, Tail(batch),
                               SendAll(n, Head(batch), ord, L, "gossip").links) :
                ord \in selectGossipTargets(n)}

(* the records node n has handed to its transports and that are in flight *)
RECURSIVE SumLen(_, _, _)
SumLen(L, n, S) ==
    IF S = {} THEN 0
    ELSE LET p == CHOOSE x \in S : TRUE
         IN Len(L[<<n, p>>]) + SumLen(L, n, S \ {p})

Outgoing(L, n) == SumLen(L, n, Nodes)

(* processGossipQueue returning at once: nothing leaves the queue *)
processGossipQueueIdle(n, q, L) == {[queue |-> q, links |-> L]}

(* processGossipQueue(n) on queue q: the set of [queue, links] it can leave *)
processGossipQueue(n, q, L) ==
    IF q = <<>> \/ getConnectedPeers(n) = {}
    THEN {[queue |-> q, links |-> L]}
    ELSE LET k == Min(MaxConcurrentGossip, Len(q))
         IN {[queue |-> SubSeq(q, k + 1, Len(q)), links |-> L2] :
             L2 \in GossipOutcomes(n, SubSeq(q, 1, k), L)}

(* ---------------------------------------------------- encryption envelope *)
(* Plaintexts are sequences of Unicode scalar values: the empty string, one
   code point of each UTF-8 length, and a mixed string. *)
Plaintexts == {<<>>, <<65>>, <<233>>, <<8364>>, <<128512>>, <<104, 233, 8364>>}
IVs == {Rep(0, IVLength), Rep(201, IVLength)}
Failure == <<-1>>
NoDecrypt == [done |-> FALSE, got |-> <<>>, want |-> <<>>]

(* the key-agreement group: a small prime-order stand-in for P-256 *)
Group == [modulus |-> 23, generator |-> 5]

RECURSIVE PowMod(_, _, _)
PowMod(b, e, m) == IF e = 0 THEN 1 % m ELSE (b * PowMod(b, e - 1, m)) % m

(* ECDH over a small group: the public key is g^priv, the secret pub^priv. *)
generateKeyPair(priv) ==
    [privateKey |-> priv, publicKey |-> PowMod(Group.generator, priv, Group.modulus)]

deriveBitsIgnoringPeer(privateKey, publicKey) ==
    PowMod(Group.generator, privateKey, Group.modulus)

deriveBits(privateKey, publicKey) == PowMod(publicKey, privateKey, Group.modulus)

RECURSIVE SumSeq(_)
SumSeq(b) == IF b = <<>> THEN 0 ELSE Head(b) + SumSeq(Tail(b))

(* AES-GCM as a keyed stream with an authentication tag over key, iv and data. *)
KeyStream(key, iv, i) == (key * 7 + iv[1] + 13 * i) % 256
GcmTag(key, iv, ct) == (key * 31 + iv[1] + SumSeq(ct) + Len(ct)) % 256

subtleEncrypt(key, iv, data) ==
    LET ct == [i \in 1..Len(data) |-> (data[i] + KeyStream(key, iv, i)) % 256]
    IN Append(ct, GcmTag(key, iv, ct))

subtleDecrypt(key, iv, data) ==
    IF Len(data) = 0 \/ Len(iv) # IVLength THEN Failure
    ELSE LET ct == SubSeq(data, 1, Len(data) - 1)
         IN IF data[Len(data)] # GcmTag(key, iv, ct) THEN Failure
            ELSE [i \in 1..Len(ct) |-> (ct[i] + 256 - KeyStream(key, iv, i)) % 256]

(* TextEncoder.encode: UTF-8 *)
Utf8Bytes(cp) ==
    IF cp < 128 THEN <<cp>>
    ELSE IF cp < 2048 THEN <<192 + (cp \div 64), 128 + (cp % 64)>>
    ELSE IF cp < 65536
         THEN <<224 + (cp \div 4096), 128 + ((cp \div 64) % 64), 128 + (cp % 64)>>
    ELSE <<240 + (cp \div 262144), 128 + ((cp \div 4096) % 64),
           128 + ((cp \div 64) % 64), 128 + (cp % 64)>>

RECURSIVE TextEncode(_)
TextEncode(str) == IF str = <<>> THEN <<>> ELSE Utf8Bytes(Head(str)) \o TextEncode(Tail(str))

IsCont(b) == b >= 128 /\ b < 192

(* TextDecoder.decode: UTF-8, U+FFFD for a malformed byte *)
RECURSIVE TextDecode(_)
TextDecode(b) ==
    IF b = <<>> THEN <<>>
    ELSE LET h == Head(b)
             n == IF h < 128 THEN 1
                  ELSE IF h >= 192 /\ h < 224 THEN 2
                  ELSE IF h >= 224 /\ h < 240 THEN 3
                  ELSE IF h >= 240 /\ h < 248 THEN 4
                  ELSE 0
             ok == n > 0 /\ Len(b) >= n /\ \A i \in 2..n : IsCont(b[i])
             cp == IF n = 1 THEN h
                   ELSE IF n = 2 THEN (h - 192) * 64 + (b[2] - 128)
                   ELSE IF n = 3
                        THEN (h - 224) * 4096 + (b[2] - 128) * 64 + (b[3] - 128)
                   ELSE (h - 240) * 262144 + (b[2] - 128) * 4096
                          + (b[3] - 128) * 64 + (b[4] - 128)
         IN IF ok THEN <<cp>> \o TextDecode(SubSeq(b, n + 1, Len(b)))
            ELSE <<65533>> \o TextDecode(Tail(b))

(* btoa over the bytes as char codes: sextets 0..63, 64 for the '=' padding *)
RECURSIVE btoa(_)
btoa(b) ==
    IF b = <<>> THEN <<>>
    ELSE IF Len(b) = 1
         THEN <<b[1] \div 4, (b[1] % 4) * 16, 64, 64>>
    ELSE IF Len(b) = 2
         THEN <<b[1] \div 4, (b[1] % 4) * 16 + (b[2] \div 16), (b[2] % 16) * 4, 64>>
    ELSE <<b[1] \div 4, (b[1] % 4) * 16 + (b[2] \div 16),
           (b[2] % 16) * 4 + (b[3] \div 64), b[3] % 64>>
           \o btoa(SubSeq(b, 4, Len(b)))

RECURSIVE atob(_)
atob(c) ==
    IF Len(c) < 4 THEN <<>>
    ELSE LET b1 == c[1] * 4 + (c[2] \div 16)
             b2 == (c[2] % 16) * 16 + (c[3] \div 4)
             b3 == (c[3] % 4) * 64 + c[4]
         IN IF c[3] = 64 THEN <<b1>>
            ELSE IF c[4] = 64 THEN <<b1, b2>>
            ELSE <<b1, b2, b3>> \o atob(SubSeq(c, 5, Len(c)))

encryptMessage(self, payload, recipientPublicKey, iv) ==
    LET sharedSecret == deriveBits(keyPair[self].privateKey, recipientPublicKey)
        encrypted == subtleEncrypt(sharedSecret, iv, TextEncode(payload))
        combined == iv \o encrypted
    IN btoa(combined)

decryptMessage(self, encryptedPayload, senderPublicKey) ==
    LET sharedSecret == deriveBits(keyPair[self].privateKey, senderPublicKey)
        combined == atob(encryptedPayload)
        iv == SubSeq(combined, 1, Min(IVLength, Len(combined)))
        encrypted == SubSeq(combined, IVLength + 1, Len(combined))
        plain == subtleDecrypt(sharedSecret, iv, encrypted)
    IN IF plain = Failure THEN Failure ELSE TextDecode(plain)

CryptoIdle ==
    /\ keyPair = [n \in Actors |-> generateKeyPair(1)]
    /\ wire = {}
    /\ decrypted = NoDecrypt

(* Whispurr after initialize(): no heartbeat scheduled, the extensions of
   the registry registered once and initialized, none of them throwing *)
ExtIdle ==
    /\ intervals = [n \in Nodes |-> [p \in Ids |-> 0]]
    /\ isShuttingDown = [n \in Nodes |-> FALSE]
    /\ isInitialized = [n \in Nodes |-> TRUE]
    /\ extObject = [n \in Nodes |-> [e \in Exts |-> 1]]
    /\ activeExtensions = [n \in Nodes |-> <<"e1", "e2">>]
    /\ extInitialized = [n \in Nodes |-> {<<e, 1>> : e \in Exts}]
    /\ cleanupCalls = [n \in Nodes |-> [e \in Exts |-> 0]]
    /\ throwing = [n \in Nodes |-> {}]

(* ------------------------------------------------------- wire format *)
(* SHA-256 of the intent, kept symbolic: equal intents give equal digests *)
Digest(intent) == <<"sha256", intent>>

deriveResonanceKey(intent) == [kind |-> "Uint8Array", bytes |-> Digest(intent)]

generateWhisperTag(topic) == Digest(topic)

PROTOCOL_VERSION == "1.0.0"

(* the whole record createMessage returns: the fields of BaseMessage the
   network model leaves out (resonanceKey, whisperTag, version) and, under
   msg, those it keeps; an absent whisperTag option is <<>> *)
createWireMessage(type, senderId, content, ttlOpt, targetId, maxHopsOpt, intentOpt, whisperTagOpt, nonce, t) ==
    LET intent == IF intentOpt = "" THEN "default" ELSE intentOpt
    IN [resonanceKey |-> deriveResonanceKey(intent),
        whisperTag |-> IF whisperTagOpt = <<>> THEN generateWhisperTag(intent)
                       ELSE whisperTagOpt,
        version |-> PROTOCOL_VERSION,
        msg |-> createMessage(type, senderId, content, ttlOpt, targetId,
                              maxHopsOpt, intentOpt, nonce, t)]

(* Array.from(message.resonanceKey) *)
ArrayFrom(key) == [kind |-> "Array", bytes |-> key.bytes]

(* the JSON text is kept as the object it denotes, marked as text *)
serializeMessage(w) == [json |-> [w EXCEPT !.resonanceKey = ArrayFrom(@)]]

deserializeMessage(text) ==
    LET parsed == text.json
    IN IF parsed.resonanceKey.kind = "Array"
       THEN [parsed EXCEPT !.resonanceKey = [kind |-> "Uint8Array", bytes |-> @.bytes]]
       ELSE parsed

(* validateMessage with the checks of the three fields above *)
validateWireMessage(w, t) ==
    /\ w.resonanceKey.kind # "undefined"
    /\ w.whisperTag # <<>>
    /\ w.version # ""
    /\ validateMessage(w.msg, t)

NoWire == [resonanceKey |-> [kind |-> "undefined", bytes |-> <<>>],
           whisperTag |-> <<>>, version |-> "",
           msg |-> BaseMessage("error", NoId, "", 1, 0, 0)]

(* ------------------------------------------------------- PeerManager *)
(* the peer table holds at most this many records *)
MaxPeers == 2

(* a PeerConnection; transport says whether the record holds a transport *)
NoPmPeer == [known |-> FALSE, lastSeen |-> 0, connected |-> FALSE, transport |-> FALSE,
             lastPing |-> 0, latency |-> 0]

(* --------------------------------------------------- validateMessage *)
(* a record as validateMessage sees it: the values of its fields and the
   names of the fields that are undefined *)
CommonFields == {"type", "senderId", "resonanceKey", "whisperTag", "payload",
                 "timestamp", "version", "ttl", "nonce"}

(* !message.x for a string or a number *)
FalsyStr(f, A, x) == x \in A \/ f[x] = ""
FalsyNum(f, A, x) == x \in A \/ f[x] = 0

(* the errors array of validateMessage(f) at time t, as a set *)
ValidationErrors(f, A, t) ==
    {e \in {"type", "senderId", "resonanceKey", "whisperTag", "payload"} :
        FalsyStr(f, A, e)}
    \cup {e \in {"timestamp", "ttl", "nonce"} : FalsyNum(f, A, e)}
    \cup (IF FalsyStr(f, A, "version") THEN {"version"} ELSE {})
    \cup (IF ~FalsyStr(f, A, "type") /\ f.type \notin MessageTypes
          THEN {"invalid type"} ELSE {})
    \cup (IF ~FalsyNum(f, A, "ttl") /\ f.ttl < 0 THEN {"ttl positive"} ELSE {})
    \cup (IF ~FalsyNum(f, A, "timestamp") /\ ~FalsyNum(f, A, "ttl")
             /\ t - f.timestamp > f.ttl
          THEN {"expired"} ELSE {})
    \cup (IF ~FalsyStr(f, A, "type") /\ f.type = "whisper" /\ FalsyStr(f, A, "targetId")
          THEN {"targetId"} ELSE {})
    \cup (IF ~FalsyStr(f, A, "type") /\ f.type = "broadcast"
          THEN (IF "maxHops" \in A \/ f.maxHops < 0 THEN {"maxHops"} ELSE {})
               \cup (IF "currentHops" \in A \/ f.currentHops < 0
                     THEN {"currentHops"} ELSE {})
               \cup (IF "seenBy" \in A THEN {"seenBy"} ELSE {})
          ELSE {})
    \cup (IF ~FalsyStr(f, A, "type") /\ f.type = "resonance"
          THEN (IF FalsyStr(f, A, "intent") THEN {"intent"} ELSE {})
               \cup (IF "strength" \in A \/ f.strength < 0 \/ f.strength > FullStrength
                     THEN {"strength"} ELSE {})
          ELSE {})

ValidationWarnings(f, A) ==
    IF ~FalsyStr(f, A, "version") /\ f.version # PROTOCOL_VERSION
    THEN {"version mismatch"} ELSE {}

validateFields(f, A, t) ==
    [isValid |-> ValidationErrors(f, A, t) = {},
     warnings |-> ValidationWarnings(f, A),
     after |-> f]

(* isMessageExpired on such a record; an undefined operand makes the
   comparison false *)
isFieldsExpired(f, A, t) ==
    "timestamp" \notin A /\ "ttl" \notin A /\ t - f.timestamp > f.ttl

NoFields == [type |-> "", senderId |-> "", resonanceKey |-> "", whisperTag |-> "",
             payload |-> "", timestamp |-> 0, version |-> "", ttl |-> 0,
             nonce |-> 0, targetId |-> "", maxHops |-> 0, currentHops |-> 0,
             seenBy |-> <<>>, intent |-> "", strength |-> 0]

NoValidation == [done |-> FALSE, f |-> NoFields, absent |-> {}, at |-> 0,
                 isValid |-> FALSE, warnings |-> {}, after |-> NoFields]

(* the default configuration (auto-propagation on), nothing sent yet, no
   record through the wire format yet, an empty PeerManager *)
NoRoundTrip == [done |-> FALSE, m |-> NoWire, back |-> NoWire, valid |-> FALSE]

StatsIdle ==
    /\ messagesSent = [n \in Nodes |-> 0]
    /\ roundTrip = NoRoundTrip
    /\ pmPeers = [id \in Nodes |-> NoPmPeer]
    /\ pmOrder = <<>>
    /\ pmWire = <<>>
    /\ pmRemote = [id \in Nodes |-> NoPmPeer]
    /\ tasks = <<>>
    /\ asyncLog = <<>>
    /\ validation = NoValidation

AuxIdle ==
    /\ enableAutoPropagation = [n \in Nodes |-> TRUE]
    /\ startup = [n \in Nodes |-> Started(enableAutoPropagation[n])]
    /\ StatsIdle

(* ------------------------------------------------------------------- Init *)
NetInit ==
    /\ peers = [n \in Nodes |-> [p \in Ids |-> NoPeer]]
    /\ peerOrder = [n \in Nodes |-> <<>>]
    /\ connections = [n \in Nodes |-> [p \in Ids |-> "none"]]
    /\ sockets = [n \in Nodes |-> [p \in Ids |-> "none"]]
    /\ heartbeatTimers = [n \in Nodes |-> {}]
    /\ relayServers \in {f \in [Nodes -> 0..MaxRelays] :
                             \A n \in Nodes \ Actors : f[n] = 0}
    /\ extensions = [n \in Nodes |-> <<"e1", "e2">>]
    /\ gossipQueue = [n \in Nodes |-> <<>>]
    /\ messageHistory = [n \in Nodes |-> <<>>]
    /\ links = [pr \in Nodes \X Nodes |-> <<>>]
    /\ now = 1
    /\ nextNonce = 1
    /\ calls = 0
    /\ extCalls = [n \in Nodes |-> <<>>]
    /\ resonated = <<>>
    /\ delivered = NoDelivery
    /\ ret = NoRet
    /\ emitted = <<>>

Event(n, type, p, reason) == [node |-> n, type |-> type, peer |-> p, reason |-> reason]
Ret(op, n, p, result) == [op |-> op, node |-> n, peer |-> p, result |-> result]

(* ----------------------------------------- WhispurrNode: connection steps *)
NewPeer(state, type, key) ==
    [state |-> state, type |-> type, publicKey |-> key, lastSeen |-> now]

(* attemptDirectConnection, the RTCPeerConnection having been constructed *)
attemptDirectConnection(n, id, key) ==
    /\ connections' = [connections EXCEPT ![n][id] = "rtc"]
    /\ sockets' = [sockets EXCEPT ![n][id] = "rtc"]
    /\ peers' = [peers EXCEPT ![n][id] = NewPeer("connecting", "direct", key)]
    /\ peerOrder' = [peerOrder EXCEPT ![n] = Append(@, id)]
    /\ ret' = Ret("connectToPeer", n, id, "true")

(* attemptRelayConnection, one of the configured endpoints having opened *)
attemptRelayConnection(n, id, key) ==
    /\ relayServers[n] > 0
    /\ connections' = [connections EXCEPT ![n][id] = "ws"]
    /\ sockets' = [sockets EXCEPT ![n][id] = "ws"]
    /\ peers' = [peers EXCEPT ![n][id] = NewPeer("relaying", "relay", key)]
    /\ peerOrder' = [peerOrder EXCEPT ![n] = Append(@, id)]
    /\ ret' = Ret("connectToPeer", n, id, "true")

(* no relay configured (the throw is caught by connectToPeer), or every
   endpoint failed or timed out *)
ConnectFails(n, id) ==
    /\ ret' = Ret("connectToPeer", n, id, "false")
    /\ UNCHANGED <<peers, peerOrder, connections, sockets>>

connectToPeer(n, id, key) ==
    /\ calls < MaxCalls
    /\ calls' = calls + 1
    /\ IF ~validateNodeId(IdChars(id))
       THEN /\ ret' = Ret("connectToPeer", n, id, "throws")
            /\ UNCHANGED <<peers, peerOrder, connections, sockets>>
       ELSE IF Known(n, id)
       THEN /\ ret' = Ret("connectToPeer", n, id, "true")
            /\ UNCHANGED <<peers, peerOrder, connections, sockets>>
       ELSE \/ attemptDirectConnection(n, id, key)
            \/ attemptRelayConnection(n, id, key)
            \/ ConnectFails(n, id)
    /\ emitted' = <<>>
    /\ delivered' = NoDelivery
    /\ UNCHANGED <<heartbeatTimers, intervals, relayServers, cryptoVars, extVars, auxVars, startup, messagesSent, extensions, gossipQueue,
                   messageHistory, links, now, nextNonce, extCalls, resonated>>

(* dataChannel.onopen and the relay's 'connected' message share this *)
MarkConnected(n, p, touch) ==
    /\ peers' = [peers EXCEPT ![n][p] =
                    IF Known(n, p)
                    THEN [@ EXCEPT !.state = "connected",
                                   !.lastSeen = IF touch THEN now ELSE @]
                    ELSE @]
    /\ heartbeatTimers' = [heartbeatTimers EXCEPT ![n] = @ \cup {p}]
    /\ intervals' = [intervals EXCEPT ![n][p] = @ + 1]
    /\ emitted' = <<Event(n, "connected", p, "")>>

DataChannelOpen(n, p) ==
    /\ sockets[n][p] = "rtc"
    /\ sockets' = [sockets EXCEPT ![n][p] = "rtcOpen"]
    /\ MarkConnected(n, p, TRUE)
    /\ delivered' = NoDelivery
    /\ ret' = NoRet
    /\ UNCHANGED <<connections, relayServers, cryptoVars, extVars, auxVars, startup, messagesSent, peerOrder, extensions, gossipQueue,
                   messageHistory, links, now, nextNonce, calls, extCalls,
                   resonated>>

(* handleRelayMessage, data.type = 'connected' *)
RelayConnected(n, p) ==
    /\ sockets[n][p] = "ws"
    /\ Known(n, p)
    /\ intervals[n][p] < MaxTimers
    /\ MarkConnected(n, p, FALSE)
    /\ delivered' = NoDelivery
    /\ ret' = NoRet
    /\ UNCHANGED <<connections, sockets, relayServers, cryptoVars, extVars, auxVars, startup, messagesSent, peerOrder, extensions, gossipQueue,
                   messageHistory, links, now, nextNonce, calls, extCalls,
                   resonated>>

(* stopHeartbeat clears the interval the timer map holds for p, if any *)
stopHeartbeat(n, p) ==
    IF p \in heartbeatTimers[n]
    THEN [intervals EXCEPT ![n][p] = @ - 1]
    ELSE intervals

handleDisconnection(n, p, reason) ==
    /\ peers' = [peers EXCEPT ![n][p] =
                    IF Known(n, p) THEN [@ EXCEPT !.state = "disconnected"] ELSE @]
    /\ connections' = [connections EXCEPT ![n][p] = "none"]
    /\ heartbeatTimers' = [heartbeatTimers EXCEPT ![n] = @ \ {p}]
    /\ intervals' = stopHeartbeat(n, p)
    /\ emitted' = <<Event(n, "disconnected", p, reason)>>

(* dataChannel.onclose *)
DataChannelClosed(n, p) ==
    /\ sockets[n][p] \in {"rtc", "rtcOpen"}
    /\ sockets' = [sockets EXCEPT ![n][p] = "none"]
    /\ handleDisconnection(n, p, "Data channel closed")
    /\ delivered' = NoDelivery
    /\ ret' = NoRet
    /\ UNCHANGED <<relayServers, cryptoVars, extVars, auxVars, startup, messagesSent, peerOrder, extensions, gossipQueue, messageHistory,
                   links, now, nextNonce, calls, extCalls, resonated>>

(* dataChannel.onerror *)
DataChannelError(n, p) ==
    /\ sockets[n][p] \in {"rtc", "rtcOpen"}
    /\ handleDisconnection(n, p, "Data channel error")
    /\ delivered' = NoDelivery
    /\ ret' = NoRet
    /\ UNCHANGED <<sockets, relayServers, cryptoVars, extVars, auxVars, startup, messagesSent, peerOrder, extensions,
                   gossipQueue, messageHistory, links, now, nextNonce, calls,
                   extCalls, resonated>>

(* the relay socket leaves readyState OPEN; no handler is installed for it *)
RelaySocketClosed(n, p) ==
    /\ sockets[n][p] = "ws"
    /\ sockets' = [sockets EXCEPT ![n][p] = "wsClosed"]
    /\ emitted' = <<>>
    /\ delivered' = NoDelivery
    /\ ret' = NoRet
    /\ UNCHANGED <<peers, connections, heartbeatTimers, intervals, relayServers,
                   cryptoVars, extVars, auxVars, startup, messagesSent, peerOrder, extensions, gossipQueue,
                   messageHistory, links, now, nextNonce, calls, extCalls, resonated>>

(* one firing of a heartbeat interval scheduled for p by startHeartbeat *)
HeartbeatTick(n, p) ==
    /\ intervals[n][p] > 0
    /\ delivered' = NoDelivery
    /\ IF isShuttingDown[n]
       THEN /\ ret' = Ret("heartbeat", n, p, "idle")
            /\ emitted' = <<>>
            /\ UNCHANGED <<peers, connections, heartbeatTimers, intervals, links,
                           nextNonce>>
       ELSE IF ~(Known(n, p) /\ peers[n][p].state = "connected")
       THEN /\ heartbeatTimers' = [heartbeatTimers EXCEPT ![n] = @ \ {p}]
            /\ intervals' = stopHeartbeat(n, p)
            /\ ret' = Ret("heartbeat", n, p, "stopped")
            /\ emitted' = <<>>
            /\ UNCHANGED <<peers, connections, links, nextNonce>>
       ELSE LET m == createMessage("ping", n, "", PingTTL, NoId, 0, "",
                                   nextNonce, now)
                r == SendAll(n, m, <<p>>, links, "heartbeat")
            IN /\ nextNonce <= MaxMsgs
               /\ nextNonce' = nextNonce + 1
               /\ links' = r.links
               /\ IF r.ok = 1
                  THEN /\ ret' = Ret("heartbeat", n, p, "sent")
                       /\ emitted' = <<>>
                       /\ UNCHANGED <<peers, connections, heartbeatTimers, intervals>>
                  ELSE /\ ret' = Ret("heartbeat", n, p, "failed")
                       /\ handleDisconnection(n, p, "Heartbeat failed")
    /\ UNCHANGED <<sockets, relayServers, cryptoVars, extVars, auxVars, startup, messagesSent, peerOrder, extensions,
                   gossipQueue, messageHistory, now, calls, extCalls, resonated>>

disconnectFromPeer(n, p) ==
    /\ calls < MaxCalls
    /\ calls' = calls + 1
    /\ sockets' = [sockets EXCEPT ![n][p] =
                      IF connections[n][p] # "none" THEN "none" ELSE @]
    /\ handleDisconnection(n, p, "Manual disconnect")
    /\ delivered' = NoDelivery
    /\ ret' = Ret("disconnectFromPeer", n, p, "void")
    /\ UNCHANGED <<relayServers, cryptoVars, extVars, auxVars, startup, messagesSent, peerOrder, extensions, gossipQueue, messageHistory,
                   links, now, nextNonce, extCalls, resonated>>

(* ------------------------------------------------- Whispurr: the public API *)
Quiet ==
    /\ emitted' = <<>>
    /\ delivered' = NoDelivery

whisper(n, p, content, intent) ==
    LET m == createMessage("whisper", n, content, 0, p, 0, intent, nextNonce, now)
        r == SendAll(n, m, <<p>>, links, "direct")
    IN /\ nextNonce <= MaxMsgs
       /\ nextNonce' = nextNonce + 1
       /\ links' = r.links
       /\ ret' = Ret("whisper", n, p, IF r.ok = 1 THEN "true" ELSE "false")
       /\ messagesSent' = [messagesSent EXCEPT ![n] = IF r.ok = 1 THEN @ + 1 ELSE @]
       /\ Quiet
       /\ UNCHANGED <<peers, connections, sockets, heartbeatTimers, intervals, relayServers, cryptoVars, extVars, auxVars, startup, peerOrder,
                      extensions, gossipQueue, messageHistory, now, calls,
                      extCalls, resonated>>

broadcast(n, content, intent, maxHops) ==
    LET m == createMessage("broadcast", n, content, MessageTTL, NoId, maxHops,
                           intent, nextNonce, now)
    IN /\ nextNonce <= MaxMsgs
       /\ nextNonce' = nextNonce + 1
       /\ LET r == SendAll(n, m, BroadcastOrder(n), links, "direct")
          IN /\ gossipQueue' = [gossipQueue EXCEPT ![n] = Append(@, r.msg)]
             /\ links' = r.links
             /\ ret' = Ret("broadcast", n, NoId, r.ok)
             /\ messagesSent' = [messagesSent EXCEPT ![n] = @ + r.ok]
       /\ Quiet
       /\ UNCHANGED <<peers, connections, sockets, heartbeatTimers, intervals, relayServers, cryptoVars, extVars, auxVars, startup, peerOrder,
                      extensions, messageHistory, now, calls, extCalls, resonated>>

resonate(n, intent, strength) ==
    LET m == createMessage("resonance", n, "", 0, NoId, 0, intent, nextNonce, now)
    IN /\ nextNonce <= MaxMsgs
       /\ nextNonce' = nextNonce + 1
       /\ resonated' = resonated @@ (nextNonce :> strength)
       /\ LET r == SendAll(n, m, BroadcastOrder(n), links, "direct")
          IN /\ links' = r.links
             /\ ret' = Ret("resonate", n, NoId, r.ok)
             /\ messagesSent' = [messagesSent EXCEPT ![n] = @ + r.ok]
       /\ Quiet
       /\ UNCHANGED <<peers, connections, sockets, heartbeatTimers, intervals, relayServers, cryptoVars, extVars, auxVars, startup, peerOrder,
                      extensions, gossipQueue, messageHistory, now, calls, extCalls>>

(* the gossip timer's pass over the queue *)
GossipTick(n) ==
    /\ isInitialized[n]
    /\ enableAutoPropagation[n]
    /\ gossipQueue[n] # <<>>
    /\ getConnectedPeers(n) # {}
    /\ \E out \in processGossipQueue(n, gossipQueue[n], links) :
          /\ gossipQueue' = [gossipQueue EXCEPT ![n] = out.queue]
          /\ links' = out.links
          /\ messagesSent' = [messagesSent EXCEPT ![n] =
                                 @ + Outgoing(out.links, n) - Outgoing(links, n)]
    /\ Quiet
    /\ ret' = NoRet
    /\ UNCHANGED <<peers, connections, sockets, heartbeatTimers, intervals, relayServers, cryptoVars, extVars, auxVars, startup, peerOrder,
                   extensions, messageHistory, now, nextNonce, calls, extCalls,
                   resonated>>

(* --------------------------------------------------- the receive pipeline *)
ExtSupports(e) ==
    IF e = "e1" THEN {"whisper", "resonance"} ELSE {"whisper", "mining_signal"}

MessageId(m) == <<m.senderId, m.nonce>>

(* cleanupMessageHistory *)
cleanupMessageHistory(h, t) ==
    LET keep == {k \in DOMAIN h : ~(h[k] < t - MessageTTL)}
    IN [k \in keep |-> h[k]]

(* checkResonance *)
checkResonance(intent, strength) == strength > ResonanceThreshold

GossipStopsHopsOnly(n, m) == m.currentHops >= m.maxHops

GossipStopsSeenOnly(n, m) == n \in Range(m.seenBy)

(* handleGossipMessage stops before mutating the record *)
GossipStops(n, m) ==
    \/ m.currentHops >= m.maxHops
    \/ n \in Range(m.seenBy)

(* how many times handleIncomingMessage (the 'message' event, deduplicated)
   and the handler registered by setupMessageHandlers (not deduplicated)
   reach routeMessageToExtensions for one delivery of m *)
RoutedByEvent(m, fresh) ==
    IF ~fresh THEN 0
    ELSE IF m.type = "broadcast" THEN 0
    ELSE IF m.type = "resonance"
         THEN (IF checkResonance(m.intent, m.strength) THEN 1 ELSE 0)
    ELSE 1

RoutedByHandler(m) ==
    IF m.type \in {"broadcast", "ping"} THEN 0
    ELSE IF m.type = "resonance"
         THEN (IF checkResonance(m.intent, m.strength) THEN 1 ELSE 0)
    ELSE 1

(* one pass of routeMessageToExtensions over the registry in map order; a
   throw of handleMessage is caught inside the loop, so the pass goes on *)
RECURSIVE RouteFromUncaught(_, _, _, _)
RouteFromUncaught(order, m, calls0, thr) ==
    IF order = <<>> THEN calls0
    ELSE LET e == Head(order)
             key == <<e, m.senderId, m.nonce>>
             c1 == IF m.type \in ExtSupports(e)
                   THEN [x \in DOMAIN calls0 \cup {key} |->
                            IF x = key
                            THEN (IF key \in DOMAIN calls0 THEN calls0[key] ELSE 0) + 1
                            ELSE calls0[x]]
                   ELSE calls0
         IN IF m.type \in ExtSupports(e) /\ e \in thr
            THEN c1
            ELSE RouteFromUncaught(Tail(order), m, c1, thr)

RECURSIVE RouteFrom(_, _, _, _)
RouteFrom(order, m, calls0, thr) ==
    IF order = <<>> THEN calls0
    ELSE LET e == Head(order)
             key == <<e, m.senderId, m.nonce>>
             c1 == IF m.type \in ExtSupports(e)
                   THEN [x \in DOMAIN calls0 \cup {key} |->
                            IF x = key
                            THEN (IF key \in DOMAIN calls0 THEN calls0[key] ELSE 0) + 1
                            ELSE calls0[x]]
                   ELSE calls0
         IN RouteFrom(Tail(order), m, c1, thr)

(* routeMessageToExtensions, k times, on the registry of node n *)
RECURSIVE routeMessageToExtensions(_, _, _, _)
routeMessageToExtensions(n, m, k, calls0) ==
    IF k = 0 THEN calls0
    ELSE routeMessageToExtensions(
             n, m, k - 1, RouteFrom(extensions[n], m, calls0, throwing[n]))

(* the envelopes on n's outgoing links that carry record id *)
Carried(L, n, id) ==
    Cardinality({x \in UNION {{<<p, i>> : i \in 1..Len(L[<<n, p>>])} : p \in Nodes} :
                    MessageId(L[<<n, x[1]>>][x[2]].msg) = id})

(* the guard of the two receive callbacks, handleMessage, the 'message'
   event (Whispurr.handleIncomingMessage) and the registered handlers, for
   a record m that arrived from peer `from`; L0 are the links without it *)
HandleRecord(from, to, m, L0) ==
    /\ LET id == MessageId(m)
           fresh == ~isMessageExpired(m, now) /\ id \notin DOMAIN messageHistory[to]
           k == RoutedByEvent(m, fresh) + RoutedByHandler(m)
       IN IF ~(Known(to, from) /\ validateMessage(m, now))
          THEN /\ links' = L0
               /\ delivered' = [NoDelivery EXCEPT !.to = to, !.from = from,
                                                  !.msg = m, !.after = m]
               /\ emitted' = <<>>
               /\ UNCHANGED <<peers, messageHistory, gossipQueue, extCalls, nextNonce,
                              messagesSent>>
          ELSE IF isShuttingDown[to]
          THEN /\ peers' = [peers EXCEPT ![to][from].lastSeen = now]
               /\ links' = L0
               /\ delivered' = [NoDelivery EXCEPT !.to = to, !.from = from,
                                                  !.msg = m, !.after = m,
                                                  !.handled = TRUE]
               /\ emitted' = <<>>
               /\ UNCHANGED <<messageHistory, gossipQueue, extCalls, nextNonce,
                              messagesSent>>
          ELSE /\ peers' = [peers EXCEPT ![to][from].lastSeen = now]
               /\ emitted' = <<Event(to, "message", from, "")>>
               /\ messageHistory' =
                     [messageHistory EXCEPT ![to] =
                         IF fresh
                         THEN cleanupMessageHistory(
                                  [x \in DOMAIN @ \cup {id} |->
                                      IF x = id THEN now ELSE @[x]], now)
                         ELSE @]
               /\ extCalls' = [extCalls EXCEPT ![to] =
                                  routeMessageToExtensions(to, m, k, @)]
               /\ nextNonce' = IF m.type = "ping" THEN nextNonce + 1 ELSE nextNonce
               /\ IF m.type = "broadcast" /\ ~GossipStops(to, m)
                  THEN LET m2 == [m EXCEPT !.seenBy = Append(@, to),
                                           !.currentHops = @ + 1]
                       IN \E out \in processGossipQueue(
                                        to, Append(gossipQueue[to], m2), L0) :
                             /\ gossipQueue' = [gossipQueue EXCEPT ![to] = out.queue]
                             /\ messagesSent' =
                                   [messagesSent EXCEPT ![to] =
                                       @ + Outgoing(out.links, to) - Outgoing(L0, to)]
                             /\ links' = out.links
                             /\ delivered' =
                                   [to |-> to, from |-> from, msg |-> m,
                                    handled |-> TRUE, enq |-> TRUE,
                                    fwd |-> Carried(out.links, to, id)
                                              - Carried(L0, to, id),
                                    ext |-> k, after |-> m2,
                                    ponged |-> FALSE, pongPayload |-> ""]
                  ELSE IF m.type = "ping"
                  THEN LET pongMessage == createMessage("pong", to, "", PingTTL,
                                                        NoId, 0, "", nextNonce, now)
                           r == SendAll(to, pongMessage, <<from>>, L0, "pong")
                       IN /\ links' = r.links
                          /\ delivered' =
                                [to |-> to, from |-> from, msg |-> m,
                                 handled |-> TRUE, enq |-> FALSE, fwd |-> 0,
                                 ext |-> k, after |-> m,
                                 ponged |-> (r.ok = 1),
                                 pongPayload |-> pongMessage.pt]
                          /\ UNCHANGED <<gossipQueue, messagesSent>>
                  ELSE /\ links' = L0
                       /\ delivered' =
                             [to |-> to, from |-> from, msg |-> m,
                              handled |-> TRUE, enq |-> FALSE, fwd |-> 0,
                              ext |-> k, after |-> m,
                              ponged |-> FALSE, pongPayload |-> ""]
                       /\ UNCHANGED <<gossipQueue, messagesSent>>

(* ws.onmessage -> handleRelayMessage, data.type = 'message' *)
Deliver(from, to) ==
    /\ links[<<from, to>>] # <<>>
    /\ sockets[to][from] = "ws"
    /\ HandleRecord(from, to, Head(links[<<from, to>>]).msg,
                    [links EXCEPT ![<<from, to>>] = Tail(@)])
    /\ ret' = NoRet
    /\ UNCHANGED <<connections, sockets, heartbeatTimers, intervals, relayServers, cryptoVars, extVars, auxVars, startup, peerOrder,
                   extensions, now, calls, resonated>>

(* the record a remote peer writes to its end of the data channel: a
   whisper to `to`, encrypted for it, with an identifier of the remote's own *)
InboundRecord(from, to) ==
    [createMessage("whisper", from, "hello", 0, to, 0, "", 0, now)
        EXCEPT !.enc = <<to>>]

(* dataChannel.onmessage; the remote sends the record once, so it is not in
   the history yet when it arrives *)
DataChannelMessage(from, to) ==
    /\ sockets[to][from] = "rtcOpen"
    /\ MessageId(InboundRecord(from, to)) \notin DOMAIN messageHistory[to]
    /\ HandleRecord(from, to, InboundRecord(from, to), links)
    /\ ret' = NoRet
    /\ UNCHANGED <<connections, sockets, heartbeatTimers, intervals, relayServers,
                   cryptoVars, extVars, auxVars, startup, peerOrder, extensions, now, calls,
                   resonated>>

(* --------------------------------------- Whispurr: registry and shutdown *)
RECURSIVE RemoveFirst(_, _)
RemoveFirst(seq, x) ==
    IF seq = <<>> THEN <<>>
    ELSE IF Head(seq) = x THEN Tail(seq)
    ELSE <<Head(seq)>> \o RemoveFirst(Tail(seq), x)

(* this.extensions.has(id) *)
RegisteredNever(n, e) == FALSE

Registered(n, e) == extObject[n][e] # 0

(* registerExtension(extension): extension is the object of version v and
   id e *)
registerExtension(n, e, v) ==
    /\ calls < MaxCalls
    /\ calls' = calls + 1
    /\ IF Registered(n, e)
       THEN /\ ret' = Ret("registerExtension", n, e, "throws")
            /\ UNCHANGED <<extensions, extObject, activeExtensions, extInitialized>>
       ELSE /\ ret' = Ret("registerExtension", n, e, "void")
            /\ extensions' = [extensions EXCEPT ![n] = Append(@, e)]
            /\ extObject' = [extObject EXCEPT ![n][e] = v]
            /\ activeExtensions' = [activeExtensions EXCEPT ![n] = Append(@, e)]
            /\ extInitialized' =
                  [extInitialized EXCEPT ![n] =
                      IF isInitialized[n] THEN @ \cup {<<e, v>>} ELSE @]
    /\ emitted' = <<>>
    /\ delivered' = NoDelivery
    /\ UNCHANGED <<peers, peerOrder, connections, sockets, heartbeatTimers,
                   intervals, relayServers, cryptoVars, gossipQueue, messageHistory,
                   links, now, nextNonce, extCalls, resonated, isShuttingDown,
                   isInitialized, cleanupCalls, throwing, auxVars, startup, messagesSent>>

(* unregisterExtension(extensionId) *)
unregisterExtension(n, e) ==
    /\ calls < MaxCalls
    /\ calls' = calls + 1
    /\ IF ~Registered(n, e)
       THEN /\ ret' = Ret("unregisterExtension", n, e, "throws")
            /\ UNCHANGED <<extensions, extObject, activeExtensions, cleanupCalls>>
       ELSE /\ cleanupCalls' = [cleanupCalls EXCEPT ![n][e] = @ + 1]
            /\ IF e \in throwing[n]
               THEN /\ ret' = Ret("unregisterExtension", n, e, "throws")
                    /\ UNCHANGED <<extensions, extObject, activeExtensions>>
               ELSE /\ ret' = Ret("unregisterExtension", n, e, "void")
                    /\ extensions' = [extensions EXCEPT ![n] = RemoveFirst(@, e)]
                    /\ extObject' = [extObject EXCEPT ![n][e] = 0]
                    /\ activeExtensions' =
                          [activeExtensions EXCEPT ![n] = RemoveFirst(@, e)]
    /\ emitted' = <<>>
    /\ delivered' = NoDelivery
    /\ UNCHANGED <<peers, peerOrder, connections, sockets, heartbeatTimers,
                   intervals, relayServers, cryptoVars, gossipQueue, messageHistory,
                   links, now, nextNonce, extCalls, resonated, isShuttingDown,
                   isInitialized, extInitialized, throwing, auxVars, startup, messagesSent>>

(* the cleanup loop of Whispurr.shutdown over the registry in map order:
   the invocations made, and whether a throw left the loop *)
RECURSIVE CleanupAllUncaught(_, _, _)
CleanupAllUncaught(order, counts, thr) ==
    IF order = <<>> THEN [calls |-> counts, threw |-> FALSE]
    ELSE LET e == Head(order)
             c1 == [counts EXCEPT ![e] = @ + 1]
         IN IF e \in thr
            THEN [calls |-> c1, threw |-> TRUE]
            ELSE CleanupAllUncaught(Tail(order), c1, thr)

RECURSIVE CleanupAll(_, _, _)
CleanupAll(order, counts, thr) ==
    IF order = <<>> THEN [calls |-> counts, threw |-> FALSE]
    ELSE CleanupAll(Tail(order), [counts EXCEPT ![Head(order)] = @ + 1], thr)

(* Whispurr.shutdown(): the timers, the cleanup loop, WhispurrNode.shutdown()
   (which stops the heartbeats of the timer map, closes the connections of
   the connection map and clears the tables), then isInitialized = false *)
(* shutdown's clearInterval calls: the interval whose handle the object
   holds in gossipTimer / obfuscationTimer is cancelled, no other *)
TimersCleared(st) ==
    [st EXCEPT !.gossipScheduled = IF st.gossipHeld THEN @ - 1 ELSE @,
               !.gossipHeld = FALSE,
               !.obfuscationScheduled = IF st.obfuscationHeld THEN @ - 1 ELSE @,
               !.obfuscationHeld = FALSE]

shutdown(n) ==
    /\ calls < MaxCalls
    /\ calls' = calls + 1
    /\ LET c == CleanupAll(extensions[n], cleanupCalls[n], throwing[n])
       IN /\ cleanupCalls' = [cleanupCalls EXCEPT ![n] = c.calls]
          /\ IF c.threw
             THEN /\ ret' = Ret("shutdown", n, NoId, "throws")
                  /\ UNCHANGED <<peers, peerOrder, connections, sockets,
                                 heartbeatTimers, intervals, isShuttingDown,
                                 isInitialized>>
                  /\ startup' = [startup EXCEPT ![n] = TimersCleared(@)]
             ELSE /\ ret' = Ret("shutdown", n, NoId, "void")
                  /\ isShuttingDown' = [isShuttingDown EXCEPT ![n] = TRUE]
                  /\ intervals' =
                        [intervals EXCEPT ![n] =
                            [p \in Ids |-> IF p \in heartbeatTimers[n]
                                           THEN @[p] - 1 ELSE @[p]]]
                  /\ heartbeatTimers' = [heartbeatTimers EXCEPT ![n] = {}]
                  /\ sockets' =
                        [sockets EXCEPT ![n] =
                            [p \in Ids |-> IF connections[n][p] # "none"
                                           THEN "none" ELSE @[p]]]
                  /\ connections' = [connections EXCEPT ![n] = [p \in Ids |-> "none"]]
                  /\ peers' = [peers EXCEPT ![n] = [p \in Ids |-> NoPeer]]
                  /\ peerOrder' = [peerOrder EXCEPT ![n] = <<>>]
                  /\ isInitialized' = [isInitialized EXCEPT ![n] = FALSE]
                  /\ startup' = [startup EXCEPT ![n] =
                                    [TimersCleared(@) EXCEPT !.handlerSets = 0]]
    /\ emitted' = <<>>
    /\ delivered' = NoDelivery
    /\ UNCHANGED <<relayServers, cryptoVars, extensions, gossipQueue, messageHistory,
                   links, now, nextNonce, extCalls, resonated, extObject,
                   activeExtensions, extInitialized, throwing, auxVars, messagesSent>>

(* 100 000 ms pass; the gossip timer (every 5 000 ms) has run by then, so
   a queue is left non-empty only by processGossipQueue's early return *)
Tick ==
    /\ now < MaxTime
    /\ \A n \in Nodes : gossipQueue[n] = <<>> \/ getConnectedPeers(n) = {}
    /\ now' = now + 1
    /\ Quiet
    /\ ret' = NoRet
    /\ UNCHANGED <<peers, connections, sockets, heartbeatTimers, intervals, relayServers, cryptoVars, extVars, auxVars, startup, messagesSent, peerOrder,
                   extensions, gossipQueue, messageHistory, links, nextNonce,
                   calls, extCalls, resonated>>

(* ------------------------------------------------------- specifications *)
(* the keys a caller introduces peer id with: the peer's own, or that of a
   third key pair *)
ConnectKeys(id) == ({id} \cap Keys) \cup {"C"}

(* the connection manager right after construction and initialize() *)
InitConn == NetInit /\ CryptoIdle /\ ExtIdle /\ AuxIdle

(* ... with one relay endpoint configured at each orchestrator *)
Init == NetInit /\ CryptoIdle /\ ExtIdle /\ AuxIdle /\ \A n \in Actors : relayServers[n] = 1

(* Spec: two orchestrators that introduce each other and exchange records *)
Next ==
    \/ \E n \in Actors : \E id \in Actors \ {n} :
          \E key \in ConnectKeys(id) : connectToPeer(n, id, key)
    \/ \E n \in Actors : \E p \in Actors \ {n} : \E c \in Contents, i \in Intents :
          whisper(n, p, c, i)
    \/ \E n \in Actors, c \in Contents, i \in Intents : broadcast(n, c, i, 1)
    \/ \E n \in Actors, i \in Intents, s \in Strengths : resonate(n, i, s)
    \/ \E n \in Actors : GossipTick(n)
    \/ \E from \in Actors : \E to \in Actors \ {from} : Deliver(from, to)
    \/ Tick

Spec == Init /\ [][Next]_vars

(* SpecConn: the connection manager alone, every id a caller may pass *)
ConnNext ==
    \/ \E n \in Actors : \E id \in (Actors \cup BadIds) \ {n} :
          \E key \in ConnectKeys(id) : connectToPeer(n, id, key)
    \/ \E n \in Actors : \E p \in Actors \ {n} : DataChannelOpen(n, p)
    \/ \E n \in Actors : \E p \in Actors \ {n} : RelayConnected(n, p)
    \/ \E n \in Actors : \E p \in Actors \ {n} : DataChannelClosed(n, p)
    \/ \E n \in Actors : \E p \in Actors \ {n} : disconnectFromPeer(n, p)
    \/ Tick

SpecConn == InitConn /\ [][ConnNext]_vars

(* SpecGossip: relay links already up along a line A-B-C-D or a ring A-B-C,
   each end having introduced the other with its own key *)
LineEdges == {<<"A", "B">>, <<"B", "C">>, <<"C", "D">>}
RingEdges == {<<"A", "B">>, <<"B", "C">>, <<"C", "A">>}
Topologies == {LineEdges, RingEdges}

Linked(E, n, p) == <<n, p>> \in E \/ <<p, n>> \in E

IsLine == \A n \in Nodes, p \in Nodes : Known(n, p) <=> Linked(LineEdges, n, p)
IsRing == \A n \in Nodes, p \in Nodes : Known(n, p) <=> Linked(RingEdges, n, p)

(* the ids of S in the order A, B, C, D *)
InOrder(S) ==
    LET all == <<"A", "B", "C", "D">>
        F[i \in 0..4] == IF i = 0 THEN <<>>
                         ELSE F[i - 1] \o (IF all[i] \in S THEN <<all[i]>> ELSE <<>>)
    IN F[4]

InitGossip ==
    /\ \E E \in Topologies :
          /\ peers = [n \in Nodes |-> [p \in Ids |->
                        IF Linked(E, n, p)
                        THEN [state |-> "relaying", type |-> "relay",
                              publicKey |-> p, lastSeen |-> 1]
                        ELSE NoPeer]]
          /\ connections = [n \in Nodes |-> [p \in Ids |->
                              IF Linked(E, n, p) THEN "ws" ELSE "none"]]
          /\ sockets = connections
          /\ peerOrder = [n \in Nodes |-> InOrder({p \in Nodes : Linked(E, n, p)})]
    /\ heartbeatTimers = [n \in Nodes |-> {}]
    /\ relayServers = [n \in Nodes |-> 1]
    /\ extensions = [n \in Nodes |-> <<"e1", "e2">>]
    /\ gossipQueue = [n \in Nodes |-> <<>>]
    /\ messageHistory = [n \in Nodes |-> <<>>]
    /\ links = [pr \in Nodes \X Nodes |-> <<>>]
    /\ now = 1
    /\ nextNonce = 1
    /\ calls = 0
    /\ extCalls = [n \in Nodes |-> <<>>]
    /\ resonated = <<>>
    /\ delivered = NoDelivery
    /\ ret = NoRet
    /\ emitted = <<>>
    /\ CryptoIdle
    /\ ExtIdle
    /\ enableAutoPropagation \in {[n \in Nodes |-> b] : b \in BOOLEAN}
    /\ startup = [n \in Nodes |-> Started(enableAutoPropagation[n])]
    /\ StatsIdle

GossipNext ==
    \/ \E c \in Contents, i \in Intents, h \in 0..MaxHopsArg :
          /\ nextNonce <= MaxBroadcasts
          /\ IsRing => h \in 1..RingHopsArg
          /\ broadcast("A", c, i, h)
    \/ \E n \in Nodes : GossipTick(n)
    \/ \E from \in Nodes : \E to \in Nodes \ {from} : Deliver(from, to)

SpecGossip == InitGossip /\ [][GossipNext]_vars

(* ------------------------------------------------------ SpecCrypto: C4 *)
(* node a encrypts plaintext p for node b under a fresh iv *)
EncryptFor(a, b, p, iv) ==
    /\ Cardinality(wire) < MaxWire
    /\ wire' = wire \cup {[from |-> a, to |-> b, plain |-> p,
                           payload |-> encryptMessage(a, p, keyPair[b].publicKey, iv)]}
    /\ decrypted' = NoDecrypt
    /\ UNCHANGED <<keyPair, netVars, intervals, extVars, auxVars, startup, messagesSent>>

(* the receiver of ciphertext e decrypts it with the sender's public key *)
DecryptAt(e) ==
    /\ decrypted' = [done |-> TRUE, want |-> e.plain,
                     got |-> decryptMessage(e.to, e.payload, keyPair[e.from].publicKey)]
    /\ wire' = wire \ {e}
    /\ UNCHANGED <<keyPair, netVars, intervals, extVars, auxVars, startup, messagesSent>>

InitCrypto ==
    /\ NetInit
    /\ \A n \in Actors : relayServers[n] = 1
    /\ ExtIdle
    /\ AuxIdle
    /\ keyPair \in [Actors -> {generateKeyPair(k) : k \in 1..MaxPriv}]
    /\ wire = {}
    /\ decrypted = NoDecrypt

CryptoNext ==
    \/ \E a \in Actors : \E b \in Actors \ {a} : \E p \in Plaintexts, iv \in IVs :
          EncryptFor(a, b, p, iv)
    \/ \E e \in wire : DecryptAt(e)

SpecCrypto == InitCrypto /\ [][CryptoNext]_vars

(* SpecSession: the life of a session, from the introduction of a peer over
   the heartbeat to the disconnection and the shutdown; A knows of two
   peers, B of one *)
SessionPeers(n) == IF n = "A" THEN {"B", "C"} ELSE {"A"}

SessionNext ==
    \/ \E n \in Actors : \E id \in SessionPeers(n) : connectToPeer(n, id, id)
    \/ \E n \in Actors : \E p \in SessionPeers(n) : DataChannelOpen(n, p)
    \/ \E n \in Actors : \E p \in SessionPeers(n) : RelayConnected(n, p)
    \/ \E n \in Actors : \E p \in SessionPeers(n) : DataChannelClosed(n, p)
    \/ \E n \in Actors : \E p \in SessionPeers(n) : DataChannelError(n, p)
    \/ \E n \in Actors : \E p \in SessionPeers(n) : RelaySocketClosed(n, p)
    \/ \E n \in Actors : \E p \in SessionPeers(n) : disconnectFromPeer(n, p)
    \/ \E n \in Actors : \E p \in SessionPeers(n) : HeartbeatTick(n, p)
    \/ \E n \in Actors : \E p \in SessionPeers(n) : whisper(n, p, "hello", "")
    \/ \E from \in Actors : \E to \in Actors \ {from} : Deliver(from, to)
    \/ \E n \in Actors : \E p \in SessionPeers(n) : DataChannelMessage(p, n)
    \/ \E n \in Actors : shutdown(n)

SpecSession == Init /\ [][SessionNext]_vars

(* SpecExt: two orchestrators joined over the relay, A with one extension
   registered and B with two, any of which may throw; extensions are
   registered and unregistered, records exchanged, and the network shut down *)
InitExt ==
    /\ now = 1
    /\ peers = [n \in Nodes |-> [p \in Ids |->
                   IF n \in Actors /\ p \in Actors \ {n}
                   THEN NewPeer("relaying", "relay", p) ELSE NoPeer]]
    /\ peerOrder = [n \in Nodes |-> IF n = "A" THEN <<"B">>
                                    ELSE IF n = "B" THEN <<"A">> ELSE <<>>]
    /\ connections = [n \in Nodes |-> [p \in Ids |->
                         IF n \in Actors /\ p \in Actors \ {n} THEN "ws" ELSE "none"]]
    /\ sockets = connections
    /\ heartbeatTimers = [n \in Nodes |-> {}]
    /\ relayServers = [n \in Nodes |-> IF n \in Actors THEN 1 ELSE 0]
    /\ extensions = [n \in Nodes |-> IF n = "A" THEN <<"e1">> ELSE <<"e1", "e2">>]
    /\ gossipQueue = [n \in Nodes |-> <<>>]
    /\ messageHistory = [n \in Nodes |-> <<>>]
    /\ links = [pr \in Nodes \X Nodes |-> <<>>]
    /\ nextNonce = 1
    /\ calls = 0
    /\ extCalls = [n \in Nodes |-> <<>>]
    /\ resonated = <<>>
    /\ delivered = NoDelivery
    /\ ret = NoRet
    /\ emitted = <<>>
    /\ CryptoIdle
    /\ AuxIdle
    /\ intervals = [n \in Nodes |-> [p \in Ids |-> 0]]
    /\ isShuttingDown = [n \in Nodes |-> FALSE]
    /\ isInitialized = [n \in Nodes |-> TRUE]
    /\ extObject = [n \in Nodes |-> [e \in Exts |->
                       IF e \in Range(extensions[n]) THEN 1 ELSE 0]]
    /\ activeExtensions = extensions
    /\ extInitialized = [n \in Nodes |-> {<<e, 1>> : e \in Range(extensions[n])}]
    /\ cleanupCalls = [n \in Nodes |-> [e \in Exts |-> 0]]
    /\ throwing \in {f \in [Nodes -> SUBSET Exts] :
                        \A n \in Nodes \ Actors : f[n] = {}}

ExtNext ==
    \/ \E n \in Actors, e \in Exts, v \in {1, 2} : registerExtension(n, e, v)
    \/ \E n \in Actors, e \in Exts : unregisterExtension(n, e)
    \/ \E n \in Actors : \E p \in Actors \ {n} : whisper(n, p, "hello", "")
    \/ \E from \in Actors : \E to \in Actors \ {from} : Deliver(from, to)
    \/ \E n \in Actors : shutdown(n)

SpecExt == InitExt /\ [][ExtNext]_vars

(* SpecApi: one orchestrator, A, that knows B and C over the relay and D
   over an open data channel, and calls whisper, broadcast and resonate
   while relay sockets close and peers are disconnected *)
InitApi ==
    /\ now = 1
    /\ peers = [n \in Nodes |-> [p \in Ids |->
                   IF n = "A" /\ p \in {"B", "C"} THEN NewPeer("relaying", "relay", p)
                   ELSE IF n = "A" /\ p = "D" THEN NewPeer("connected", "direct", p)
                   ELSE NoPeer]]
    /\ peerOrder = [n \in Nodes |-> IF n = "A" THEN <<"B", "C", "D">> ELSE <<>>]
    /\ connections = [n \in Nodes |-> [p \in Ids |->
                         IF n = "A" /\ p \in {"B", "C"} THEN "ws"
                         ELSE IF n = "A" /\ p = "D" THEN "rtc" ELSE "none"]]
    /\ sockets = [n \in Nodes |-> [p \in Ids |->
                     IF n = "A" /\ p \in {"B", "C"} THEN "ws"
                     ELSE IF n = "A" /\ p = "D" THEN "rtcOpen" ELSE "none"]]
    /\ heartbeatTimers = [n \in Nodes |-> IF n = "A" THEN {"D"} ELSE {}]
    /\ intervals = [n \in Nodes |-> [p \in Ids |->
                       IF n = "A" /\ p = "D" THEN 1 ELSE 0]]
    /\ relayServers = [n \in Nodes |-> IF n \in Actors THEN 1 ELSE 0]
    /\ extensions = [n \in Nodes |-> <<"e1", "e2">>]
    /\ gossipQueue = [n \in Nodes |-> <<>>]
    /\ messageHistory = [n \in Nodes |-> <<>>]
    /\ links = [pr \in Nodes \X Nodes |-> <<>>]
    /\ nextNonce = 1
    /\ calls = 0
    /\ extCalls = [n \in Nodes |-> <<>>]
    /\ resonated = <<>>
    /\ delivered = NoDelivery
    /\ ret = NoRet
    /\ emitted = <<>>
    /\ CryptoIdle
    /\ isShuttingDown = [n \in Nodes |-> FALSE]
    /\ isInitialized = [n \in Nodes |-> TRUE]
    /\ extObject = [n \in Nodes |-> [e \in Exts |-> 1]]
    /\ activeExtensions = [n \in Nodes |-> <<"e1", "e2">>]
    /\ extInitialized = [n \in Nodes |-> {<<e, 1>> : e \in Exts}]
    /\ cleanupCalls = [n \in Nodes |-> [e \in Exts |-> 0]]
    /\ throwing = [n \in Nodes |-> {}]
    /\ AuxIdle

ApiNext ==
    \/ \E p \in Nodes \ {"A"} : \E c \in Contents, i \in Intents : whisper("A", p, c, i)
    \/ \E c \in Contents, i \in Intents : broadcast("A", c, i, 1)
    \/ \E i \in Intents, st \in Strengths : resonate("A", i, st)
    \/ GossipTick("A")
    \/ \E p \in Nodes \ {"A"} : RelaySocketClosed("A", p)
    \/ \E p \in Nodes \ {"A"} : disconnectFromPeer("A", p)

SpecApi == InitApi /\ [][ApiNext]_vars

(* -------------------------------------------- the wire format, alone *)
WireContents == {"", "hello"}
WireTags == {<<>>, <<"wt">>}

(* createMessage, then serializeMessage, deserializeMessage and
   validateMessage on what came back, all at the same instant *)
CreateAndRoundTrip(type, n, c, ttlOpt, target, h, i, wt) ==
    /\ nextNonce <= MaxMsgs
    /\ LET m == createWireMessage(type, n, c, ttlOpt, target, h, i, wt, nextNonce, now)
           back == deserializeMessage(serializeMessage(m))
       IN roundTrip' = [done |-> TRUE, m |-> m, back |-> back,
                        valid |-> validateWireMessage(back, now)]
    /\ nextNonce' = nextNonce + 1
    /\ Quiet
    /\ ret' = NoRet
    /\ UNCHANGED <<peers, connections, sockets, heartbeatTimers, intervals, relayServers,
                   cryptoVars, extVars, enableAutoPropagation, startup, pmVars,  asyncVars,
                   validation,
                   messagesSent, peerOrder, extensions, gossipQueue, messageHistory,
                   links, now, calls, extCalls, resonated>>

(* the options each kind needs are supplied; the others are left out *)
WireNext ==
    \/ \E type \in MessageTypes, c \in WireContents, ttlOpt \in 0..MessageTTL,
          h \in 0..MaxHopsArg, wt \in WireTags :
          CreateAndRoundTrip(type, "A", c, ttlOpt,
                             IF type = "whisper" THEN "B" ELSE NoId,
                             IF type = "broadcast" THEN h ELSE 0,
                             IF type = "resonance" THEN "mining:coord" ELSE "", wt)
    \/ Tick

SpecWire == InitConn /\ [][WireNext]_vars

(* ------------------------------------------ the PeerManager of node A *)
(* the keys of this.peers *)
PmKnown(P) == {id \in Nodes : P[id].known}

Without(O, id) == SelectSeq(O, LAMBDA x : x # id)

OldestPeerFirstInserted(P, O) == O[1]

(* Array.from(this.peers.values()).sort(by lastSeen)[0]: the sort is stable,
   so of the peers seen least recently the one inserted first *)
OldestPeer(P, O) ==
    O[CHOOSE i \in 1..Len(O) :
        \A j \in 1..Len(O) :
            \/ P[O[i]].lastSeen < P[O[j]].lastSeen
            \/ P[O[i]].lastSeen = P[O[j]].lastSeen /\ i <= j]

(* what disconnect(id) emits on table P *)
DisconnectEvents(P, id) ==
    IF P[id].known /\ P[id].connected
    THEN <<Event("A", "peer:disconnected", id, "Disconnected")>>
    ELSE <<>>

(* the table, its order and the events after addPeer(id, transport) at
   time t; the event of an evicted peer whose transport has to be closed
   is emitted after the await, the others at once *)
AddPeerResult(P, O, id, transport, t) ==
    IF P[id].known
    THEN [peers |-> [P EXCEPT ![id].lastSeen = t,
                              ![id].connected = IF transport THEN TRUE ELSE @,
                              ![id].transport = transport \/ @],
          order |-> O,
          events |-> <<Event("A", "peer:updated", id, "")>>]
    ELSE LET full == Len(O) >= MaxPeers /\ O # <<>>
             old == OldestPeer(P, O)
             P1 == IF full THEN [P EXCEPT ![old] = NoPmPeer] ELSE P
             O1 == IF full THEN Without(O, old) ELSE O
             ev == IF full THEN DisconnectEvents(P, old) ELSE <<>>
             added == <<Event("A", "peer:added", id, "")>>
         IN [peers |-> [P1 EXCEPT ![id] = [known |-> TRUE, lastSeen |-> t,
                                           connected |-> transport,
                                           transport |-> transport,
                                           lastPing |-> 0, latency |-> 0]],
             order |-> Append(O1, id),
             events |-> IF full /\ P[old].transport THEN added \o ev
                        ELSE ev \o added]

PmFrame ==
    /\ delivered' = NoDelivery
    /\ UNCHANGED <<peers, connections, sockets, heartbeatTimers, intervals, relayServers,
                   cryptoVars, extVars, enableAutoPropagation, startup, roundTrip, asyncVars,
                   validation,
                   messagesSent, peerOrder, extensions, gossipQueue, messageHistory,
                   links, now, nextNonce, calls, extCalls, resonated>>

PmRest == UNCHANGED <<pmWire, pmRemote>> /\ PmFrame

addPeer(id, transport) ==
    /\ LET r == AddPeerResult(pmPeers, pmOrder, id, transport, now)
       IN /\ pmPeers' = r.peers
          /\ pmOrder' = r.order
          /\ emitted' = r.events
    /\ ret' = [op |-> "addPeer", node |-> "A", peer |-> id,
               result |-> IF pmPeers[id].known THEN "updated" ELSE "added"]
    /\ PmRest

removePeer(id) ==
    /\ IF ~pmPeers[id].known
       THEN /\ UNCHANGED <<pmPeers, pmOrder>>
            /\ emitted' = <<>>
            /\ ret' = [op |-> "removePeer", node |-> "A", peer |-> id, result |-> "false"]
       ELSE /\ pmPeers' = [pmPeers EXCEPT ![id] = NoPmPeer]
            /\ pmOrder' = Without(pmOrder, id)
            /\ emitted' = <<Event("A", "peer:removed", id, "")>> \o
                             (IF pmPeers[id].transport THEN DisconnectEvents(pmPeers, id)
                              ELSE <<>>)
            /\ ret' = [op |-> "removePeer", node |-> "A", peer |-> id, result |-> "true"]
    /\ PmRest

connect(id, transport, hasAddresses) ==
    /\ IF id = "A"
       THEN /\ UNCHANGED <<pmPeers, pmOrder>>
            /\ emitted' = <<>>
            /\ ret' = [op |-> "connect", node |-> "A", peer |-> id, result |-> "throws"]
       ELSE IF pmPeers[id].known /\ pmPeers[id].connected
       THEN /\ UNCHANGED <<pmPeers, pmOrder>>
            /\ emitted' = <<>>
            /\ ret' = [op |-> "connect", node |-> "A", peer |-> id, result |-> "existing"]
       ELSE LET r == AddPeerResult(pmPeers, pmOrder, id, transport, now)
            IN /\ pmPeers' = IF ~transport /\ hasAddresses
                             THEN [r.peers EXCEPT ![id].connected = TRUE,
                                                  ![id].lastSeen = now]
                             ELSE r.peers
               /\ pmOrder' = r.order
               /\ emitted' = r.events \o <<Event("A", "peer:connected", id, "")>>
               /\ ret' = [op |-> "connect", node |-> "A", peer |-> id, result |-> "peer"]
    /\ PmRest

disconnect(id) ==
    /\ IF ~(pmPeers[id].known /\ pmPeers[id].connected)
       THEN /\ UNCHANGED pmPeers
            /\ ret' = [op |-> "disconnect", node |-> "A", peer |-> id, result |-> "false"]
       ELSE /\ pmPeers' = [pmPeers EXCEPT ![id].connected = FALSE, ![id].transport = FALSE]
            /\ ret' = [op |-> "disconnect", node |-> "A", peer |-> id, result |-> "true"]
    /\ emitted' = DisconnectEvents(pmPeers, id)
    /\ UNCHANGED pmOrder
    /\ PmRest

(* a message that is neither a ping nor a pong *)
handleIncomingMessage(id) ==
    /\ IF pmPeers[id].known
       THEN /\ pmPeers' = [pmPeers EXCEPT ![id].lastSeen = now]
            /\ emitted' = <<Event("A", "message", id, "")>>
       ELSE /\ UNCHANGED pmPeers
            /\ emitted' = <<Event("A", "message:unroutable", id, "")>>
    /\ ret' = [op |-> "handleIncomingMessage", node |-> "A", peer |-> id, result |-> "void"]
    /\ UNCHANGED pmOrder
    /\ PmRest

PeersNext ==
    \/ \E id \in Nodes : \E transport \in BOOLEAN : addPeer(id, transport)
    \/ \E id \in Nodes : removePeer(id)
    \/ \E id \in Nodes : \E transport, hasAddresses \in BOOLEAN :
          connect(id, transport, hasAddresses)
    \/ \E id \in Nodes : disconnect(id)
    \/ \E id \in Nodes : handleIncomingMessage(id)
    \/ Tick

SpecPeers == Init /\ [][PeersNext]_vars

(* ------------------------------------------- PeerManager: ping and pong *)
(* pingInterval, 30 000 ms, in the model's clock ticks: a peer is pinged at
   most once per tick *)
PingInterval == 1

(* new Date().toISOString() and new Date(x || 0).getTime(); <<>> is an
   undefined timestamp *)
ToISOString(t) == <<"iso", t>>

GetTime(x) == IF x = <<>> THEN 0 ELSE x[2]

(* Date.now().toString() *)
DateToString(t) == <<"str", t>>

(* the payload of the pong that answers a ping, built at time t *)
PongPayloadOwnTime(ping, t) ==
    [pingId |-> ping.payload.pingId, timestamp |-> ToISOString(t)]

PongPayload(ping, t) ==
    [pingId |-> ping.payload.pingId, timestamp |-> ping.timestamp]

(* sendMessage fills in senderId and timestamp; the envelope also notes when
   it was sent and, for a pong, how long the ping it answers had travelled *)
PmEnvelope(from, to, type, payload, t, pingDelay) ==
    [from |-> from, to |-> to,
     msg |-> [type |-> type, senderId |-> from, timestamp |-> ToISOString(t),
              payload |-> payload],
     sentAt |-> t, pingDelay |-> pingDelay]

(* sendMessage throws unless the peer is connected and has a transport *)
PmCanSend(rec) == rec.known /\ rec.connected /\ rec.transport

(* the peers pingPeers pings, in map order *)
RECURSIVE PingTargets(_, _, _)
PingTargets(P, O, t) ==
    IF O = <<>> THEN <<>>
    ELSE (IF P[Head(O)].connected
             /\ ~(P[Head(O)].lastPing # 0 /\ t - P[Head(O)].lastPing < PingInterval)
          THEN <<Head(O)>> ELSE <<>>) \o PingTargets(P, Tail(O), t)

RECURSIVE PingEnvelopes(_, _, _)
PingEnvelopes(P, targets, t) ==
    IF targets = <<>> THEN <<>>
    ELSE (IF PmCanSend(P[Head(targets)])
          THEN <<PmEnvelope("A", Head(targets), "ping",
                            [pingId |-> DateToString(t), timestamp |-> <<>>], t, 0)>>
          ELSE <<>>) \o PingEnvelopes(P, Tail(targets), t)

(* the timer of a started manager: sendPing for every connected peer that
   was not pinged within the interval *)
pingPeers ==
    /\ LET targets == PingTargets(pmPeers, pmOrder, now)
       IN /\ targets # <<>>
          /\ pmPeers' = [id \in Nodes |->
                            IF id \in Range(targets)
                            THEN [pmPeers[id] EXCEPT !.lastPing = now]
                            ELSE pmPeers[id]]
          /\ pmWire' = pmWire \o PingEnvelopes(pmPeers, targets, now)
          /\ emitted' = SelectSeq([i \in 1..Len(targets) |->
                                     Event("A", "peer:error", targets[i], "")],
                                  LAMBDA e : ~PmCanSend(pmPeers[e.peer]))
    /\ ret' = [op |-> "pingPeers", node |-> "A", peer |-> NoId, result |-> "void"]
    /\ UNCHANGED <<pmOrder, pmRemote>>
    /\ PmFrame

(* the position in the wire of the message that reaches `to` from `from`
   next, 0 if there is none *)
NextFor(from, to) ==
    LET mine == {i \in 1..Len(pmWire) : pmWire[i].from = from /\ pmWire[i].to = to}
    IN IF mine = {} THEN 0 ELSE CHOOSE i \in mine : \A j \in mine : i <= j

DropAt(w, i) == [j \in 1..(Len(w) - 1) |-> IF j < i THEN w[j] ELSE w[j + 1]]

(* peer p's manager: handleIncomingMessage('A', raw) where raw is a PING *)
ReceivePing(p) ==
    /\ NextFor("A", p) # 0
    /\ LET i == NextFor("A", p)
           e == pmWire[i]
           rec == pmRemote[p]
       IN /\ e.msg.type = "ping"
          /\ IF ~rec.known
             THEN /\ pmWire' = DropAt(pmWire, i)
                  /\ UNCHANGED pmRemote
                  /\ emitted' = <<Event(p, "message:unroutable", "A", "")>>
                  /\ ret' = [op |-> "handlePing", node |-> p, peer |-> "A",
                             result |-> "unroutable"]
             ELSE /\ pmRemote' = [pmRemote EXCEPT ![p].lastSeen = now]
                  /\ IF PmCanSend(rec)
                     THEN /\ pmWire' = Append(DropAt(pmWire, i),
                                 PmEnvelope(p, "A", "pong", PongPayload(e.msg, now),
                                            now, now - e.sentAt))
                          /\ emitted' = <<>>
                          /\ ret' = [op |-> "handlePing", node |-> p, peer |-> "A",
                                     result |-> "pong"]
                     ELSE /\ pmWire' = DropAt(pmWire, i)
                          /\ emitted' = <<Event(p, "peer:error", "A", "")>>
                          /\ ret' = [op |-> "handlePing", node |-> p, peer |-> "A",
                                     result |-> "error"]
    /\ UNCHANGED <<pmPeers, pmOrder>>
    /\ PmFrame

(* A's manager: handleIncomingMessage(p, raw) where raw is a PONG *)
ReceivePong(p) ==
    /\ NextFor(p, "A") # 0
    /\ LET i == NextFor(p, "A")
           e == pmWire[i]
           pingTimestamp == GetTime(e.msg.payload.timestamp)
       IN /\ e.msg.type = "pong"
          /\ pmWire' = DropAt(pmWire, i)
          /\ IF ~pmPeers[p].known
             THEN /\ UNCHANGED pmPeers
                  /\ emitted' = <<Event("A", "message:unroutable", p, "")>>
                  /\ ret' = [op |-> "handlePong", node |-> "A", peer |-> p,
                             result |-> "unroutable"]
             ELSE /\ pmPeers' = [pmPeers EXCEPT
                                   ![p].lastSeen = now,
                                   ![p].latency = IF pingTimestamp # 0
                                                  THEN now - pingTimestamp ELSE @]
                  /\ emitted' = (IF pingTimestamp # 0
                                 THEN <<Event("A", "peer:latency", p, "")>> ELSE <<>>)
                                \o <<Event("A", "peer:pong", p, "")>>
                  /\ ret' = [op |-> "handlePong", node |-> "A", peer |-> p,
                             result |-> IF pingTimestamp # 0 THEN "latency"
                                        ELSE "pong"]
    /\ UNCHANGED <<pmOrder, pmRemote>>
    /\ PmFrame

PingPeerIds == {"B", "C"}

PingNext ==
    \/ \E id \in PingPeerIds : \E transport \in BOOLEAN : connect(id, transport, TRUE)
    \/ pingPeers
    \/ \E p \in PingPeerIds : ReceivePing(p)
    \/ \E p \in PingPeerIds : ReceivePong(p)
    \/ Tick

(* peer B's manager knows A or not, connected with or without a transport;
   peer C's manager holds a connection to A *)
RemoteRecords ==
    {NoPmPeer,
     [NoPmPeer EXCEPT !.known = TRUE, !.lastSeen = 1, !.connected = TRUE,
                      !.transport = TRUE],
     [NoPmPeer EXCEPT !.known = TRUE, !.lastSeen = 1, !.connected = TRUE]}

InitPing ==
    /\ NetInit
    /\ \A n \in Actors : relayServers[n] = 1
    /\ CryptoIdle
    /\ ExtIdle
    /\ enableAutoPropagation = [n \in Nodes |-> TRUE]
    /\ startup = [n \in Nodes |-> Started(enableAutoPropagation[n])]
    /\ messagesSent = [n \in Nodes |-> 0]
    /\ roundTrip = NoRoundTrip
    /\ pmPeers = [id \in Nodes |-> NoPmPeer]
    /\ pmOrder = <<>>
    /\ pmWire = <<>>
    /\ pmRemote \in {f \in [Nodes -> RemoteRecords] :
                        /\ \A id \in Nodes \ PingPeerIds : f[id] = NoPmPeer
                        /\ PmCanSend(f["C"])}
    /\ tasks = <<>>
    /\ asyncLog = <<>>
    /\ validation = NoValidation

SpecPing == InitPing /\ [][PingNext]_vars

(* --------------------------- node B's receive callbacks, await by await *)
(* how many records arrive *)
MaxArrivals == 2

(* the index of the next extension after position i of the registry that
   supports the type, 0 if there is none: the loop of
   routeMessageToExtensions *)
NextExt(order, type, i) ==
    LET later == {j \in (i + 1)..Len(order) : type \in ExtSupports(order[j])}
    IN IF later = {} THEN 0
       ELSE CHOOSE j \in later : \A x \in later : j <= x

Finished == [at |-> "done", i |-> 0]

(* routeMessageToExtensions resumed after position i: the next supporting
   extension's handleMessage is invoked and awaited, or the loop ends *)
RouteStep(order, type, i) ==
    LET j == NextExt(order, type, i)
    IN IF j = 0 THEN Finished ELSE [at |-> "ext", i |-> j]

LogExt(order, pos, k) ==
    IF pos.at = "ext" THEN <<[what |-> "ext", ext |-> order[pos.i], rec |-> k]>>
    ELSE <<>>

(* the k-th record peer A writes: a ping or a whisper with a payload that
   validates, encrypted for B, with an identifier of A's own *)
ArrivingRecord(type, k) ==
    [createMessage(type, "A", "hello", 0, "B", 0, "", k, now) EXCEPT !.enc = <<"B">>]

(* ws.onmessage -> handleRelayMessage -> handleMessage, up to the first
   await of each coroutine: the 'message' event runs
   Whispurr.handleIncomingMessage (not awaited by emitEvent) up to its first
   extension.handleMessage, then the handler registered for the type runs up
   to its first await *)
Arrive(type) ==
    /\ Len(tasks) < MaxArrivals
    /\ sockets["B"]["A"] = "ws"
    /\ LET k == Len(tasks) + 1
           m == ArrivingRecord(type, k)
           id == MessageId(m)
           fresh == ~isMessageExpired(m, now) /\ id \notin DOMAIN messageHistory["B"]
           ev == IF fresh THEN RouteStep(extensions["B"], type, 0) ELSE Finished
           hd == IF type = "ping" THEN [at |-> "createMessage", i |-> 0]
                 ELSE RouteStep(extensions["B"], type, 0)
       IN /\ Known("B", "A") /\ validateMessage(m, now)
          /\ peers' = [peers EXCEPT !["B"]["A"].lastSeen = now]
          /\ emitted' = <<Event("B", "message", "A", "")>>
          /\ messageHistory' =
                [messageHistory EXCEPT !["B"] =
                    IF fresh
                    THEN cleanupMessageHistory(
                             [x \in DOMAIN @ \cup {id} |->
                                 IF x = id THEN now ELSE @[x]], now)
                    ELSE @]
          /\ tasks' = Append(tasks, [msg |-> m, ev |-> ev, hd |-> hd])
          /\ asyncLog' = asyncLog \o LogExt(extensions["B"], ev, k)
                                  \o LogExt(extensions["B"], hd, k)
    /\ delivered' = NoDelivery
    /\ ret' = NoRet
    /\ UNCHANGED <<connections, sockets, heartbeatTimers, intervals, relayServers,
                   cryptoVars, extVars, enableAutoPropagation, startup, roundTrip, pmVars,
                    validation, messagesSent, peerOrder, extensions, gossipQueue, links,
                   now, nextNonce, calls, extCalls, resonated>>

AsyncRest ==
    /\ delivered' = NoDelivery
    /\ emitted' = <<>>
    /\ ret' = NoRet
    /\ UNCHANGED <<peers, connections, sockets, heartbeatTimers, intervals, relayServers,
                   cryptoVars, extVars, enableAutoPropagation, startup, roundTrip, pmVars,
                    validation, messagesSent, peerOrder, extensions, gossipQueue,
                   messageHistory, now, calls, extCalls, resonated>>

(* the promise of the extension.handleMessage that record k's event path
   (path = "ev") or handler path (path = "hd") awaits settles, fulfilled or
   rejected: the loop goes on to the next extension *)
ExtensionSettles(k, path) ==
    /\ k \in 1..Len(tasks)
    /\ LET pos == IF path = "ev" THEN tasks[k].ev ELSE tasks[k].hd
           nxt == RouteStep(extensions["B"], tasks[k].msg.type, pos.i)
       IN /\ pos.at = "ext"
          /\ tasks' = IF path = "ev" THEN [tasks EXCEPT ![k].ev = nxt]
                      ELSE [tasks EXCEPT ![k].hd = nxt]
          /\ asyncLog' = asyncLog \o LogExt(extensions["B"], nxt, k)
    /\ UNCHANGED <<links, nextNonce>>
    /\ AsyncRest

(* the PING handler's await createMessage(PONG, ...) resumes (the digests of
   deriveResonanceKey and generateWhisperTag are done); sendMessage starts
   and suspends in encryptMessage *)
PongCreated(k) ==
    /\ k \in 1..Len(tasks)
    /\ tasks[k].hd.at = "createMessage"
    /\ tasks' = [tasks EXCEPT ![k].hd = [at |-> "sendMessage", i |-> 0]]
    /\ UNCHANGED <<links, nextNonce, asyncLog>>
    /\ AsyncRest

(* encryptMessage is done: the Pong is written to the relay socket *)
PongSent(k) ==
    /\ k \in 1..Len(tasks)
    /\ tasks[k].hd.at = "sendMessage"
    /\ nextNonce <= MaxMsgs
    /\ LET pong == createMessage("pong", "B", "", PingTTL, NoId, 0, "", nextNonce, now)
           r == SendAll("B", pong, <<"A">>, links, "pong")
       IN /\ links' = r.links
          /\ asyncLog' = asyncLog \o
                 (IF r.ok = 1 THEN <<[what |-> "pong", ext |-> "none", rec |-> k]>>
                  ELSE <<>>)
    /\ nextNonce' = nextNonce + 1
    /\ tasks' = [tasks EXCEPT ![k].hd = Finished]
    /\ AsyncRest

AsyncNext ==
    \/ \E type \in {"ping", "whisper"} : Arrive(type)
    \/ \E k \in 1..MaxArrivals : \E path \in {"ev", "hd"} : ExtensionSettles(k, path)
    \/ \E k \in 1..MaxArrivals : PongCreated(k)
    \/ \E k \in 1..MaxArrivals : PongSent(k)
    \/ Tick

InitAsync == InitExt /\ throwing = [n \in Nodes |-> {}]

SpecAsync == InitAsync /\ [][AsyncNext]_vars

(* ------------------------------------------- validateMessage, alone *)
(* a well-formed record of the kind, stamped at time 1 *)
GoodFields(type) ==
    [NoFields EXCEPT !.type = type, !.senderId = "A", !.resonanceKey = "key",
                     !.whisperTag = "tag", !.payload = "hello", !.timestamp = 1,
                     !.version = PROTOCOL_VERSION, !.ttl = DefaultTTL, !.nonce = 1,
                     !.targetId = IF type = "whisper" THEN "B" ELSE "",
                     !.seenBy = IF type = "broadcast" THEN <<"A">> ELSE <<>>,
                     !.intent = IF type = "resonance" THEN "mining:coord" ELSE "",
                     !.strength = IF type = "resonance" THEN FullStrength ELSE 0]

(* the fields that exist on a record of the kind *)
FieldsOf(type) ==
    CommonFields
    \cup (IF type = "whisper" THEN {"targetId"} ELSE {})
    \cup (IF type = "broadcast" THEN {"maxHops", "currentHops", "seenBy"} ELSE {})
    \cup (IF type = "resonance" THEN {"intent", "strength"} ELSE {})

(* the values a test puts in place of a good one *)
OddValues(x) ==
    CASE x = "type" -> {"", "bogus"}
      [] x = "version" -> {"", "2.0.0"}
      [] x \in {"timestamp", "ttl"} -> {0 - 1, 0, 1}
      [] x = "nonce" -> {0}
      [] x \in {"maxHops", "currentHops"} -> {0 - 1, 1}
      [] x = "strength" -> {0 - 1, 0, FullStrength + 1}
      [] x = "seenBy" -> {<<>>}
      [] OTHER -> {""}

(* records that differ from a good one in up to two fields, each either
   undefined or odd *)
Undefined(f, x) == [f |-> f.f, absent |-> f.absent \cup {x}]

Perturbed(f, x) ==
    {Undefined(f, x)} \cup {[f |-> [f.f EXCEPT ![x] = v], absent |-> f.absent] :
                               v \in OddValues(x)}

ValidationInputs ==
    UNION {LET good == [f |-> GoodFields(type), absent |-> {}]
               once == UNION {Perturbed(good, x) : x \in FieldsOf(type)}
               twice == UNION {UNION {Perturbed(g, y) : y \in FieldsOf(type)} :
                                  g \in once}
           IN {good} \cup once \cup twice
           : type \in CoreTypes}

(* validateMessage(record) at the current time *)
Validate ==
    /\ ~validation.done
    /\ LET r == validateFields(validation.f, validation.absent, now)
       IN validation' = [validation EXCEPT !.done = TRUE, !.at = now,
                                           !.isValid = r.isValid,
                                           !.warnings = r.warnings,
                                           !.after = r.after]
    /\ Quiet
    /\ ret' = NoRet
    /\ UNCHANGED <<peers, connections, sockets, heartbeatTimers, intervals, relayServers,
                   cryptoVars, extVars, enableAutoPropagation, startup, roundTrip, pmVars,
                    asyncVars, messagesSent, peerOrder, extensions,
                   gossipQueue, messageHistory, links, now, nextNonce, calls,
                   extCalls, resonated>>

ValidateNext == Validate \/ Tick

InitValidate ==
    /\ NetInit
    /\ \A n \in Actors : relayServers[n] = 1
    /\ CryptoIdle
    /\ ExtIdle
    /\ enableAutoPropagation = [n \in Nodes |-> TRUE]
    /\ startup = [n \in Nodes |-> Started(enableAutoPropagation[n])]
    /\ messagesSent = [n \in Nodes |-> 0]
    /\ roundTrip = NoRoundTrip
    /\ pmPeers = [id \in Nodes |-> NoPmPeer]
    /\ pmOrder = <<>>
    /\ pmWire = <<>>
    /\ pmRemote = [id \in Nodes |-> NoPmPeer]
    /\ tasks = <<>>
    /\ asyncLog = <<>>
    /\ validation \in {[NoValidation EXCEPT !.f = i.f, !.absent = i.absent] :
                          i \in ValidationInputs}

SpecValidate == InitValidate /\ [][ValidateNext]_vars

(* ------------------------------------------------- records sent again *)
(* the relay hands node `to` a second copy of an envelope from `from` that
   is still on its way: the copy arrives after everything sent so far; an
   envelope is copied once *)
Replay(from, to) ==
    /\ \E i \in 1..Len(links[<<from, to>>]) :
          /\ \A j \in 1..Len(links[<<from, to>>]) :
                 links[<<from, to>>][j] = links[<<from, to>>][i] => j = i
          /\ \A e \in Exts :
                 <<e, links[<<from, to>>][i].msg.senderId,
                   links[<<from, to>>][i].msg.nonce>> \notin DOMAIN extCalls[to]
          /\ links' = [links EXCEPT ![<<from, to>>] = Append(@, @[i])]
    /\ Quiet
    /\ ret' = NoRet
    /\ UNCHANGED <<peers, connections, sockets, heartbeatTimers, intervals, relayServers,
                   cryptoVars, extVars, auxVars, startup, messagesSent, peerOrder, extensions,
                   gossipQueue, messageHistory, now, nextNonce, calls, extCalls,
                   resonated>>

ReplayNext ==
    \/ whisper("A", "B", "hello", "")
    \/ Replay("A", "B")
    \/ Deliver("A", "B")
    \/ Tick

SpecReplay == InitAsync /\ [][ReplayNext]_vars

(* ------------------------------------- the heartbeat toward silent peers *)
(* A connects to B and C; B opens its own transport to A and receives A's
   pings, C does not; neither ever sends a record; every heartbeat timer
   that is scheduled keeps firing *)
HeartbeatNext ==
    \/ \E p \in SessionPeers("A") : connectToPeer("A", p, p)
    \/ \E p \in SessionPeers("A") : DataChannelOpen("A", p)
    \/ \E p \in SessionPeers("A") : RelayConnected("A", p)
    \/ \E p \in SessionPeers("A") : HeartbeatTick("A", p)
    \/ connectToPeer("B", "A", "A")
    \/ Deliver("A", "B")
    \/ Tick

SpecHeartbeat ==
    /\ Init
    /\ [][HeartbeatNext]_vars
    /\ \A p \in SessionPeers("A") : WF_vars(HeartbeatTick("A", p))
    /\ WF_vars(Deliver("A", "B"))
    /\ WF_vars(Tick)

(* ============================================================ properties *)
Envelopes == UNION {Range(links[pr]) : pr \in Nodes \X Nodes}

DeliveredSome == delivered.to # "none"

(* extensions of the receiving node that were handed the delivered record *)
ExtInvoked ==
    /\ DeliveredSome
    /\ delivered.ext > 0
    /\ \E e \in Range(extensions[delivered.to]) :
          delivered.msg.type \in ExtSupports(e)

(* C1: while the dedup entry of (senderId, nonce) is live at a node, each
   extension supporting the record's kind has had handleMessage invoked at
   most once in total for that pair. *)
C1_AtMostOncePerPair ==
    \A n \in Nodes : \A key \in DOMAIN extCalls[n] :
        LET id == <<key[2], key[3]>>
        IN (id \in DOMAIN messageHistory[n]
              /\ now - messageHistory[n][id] <= MessageTTL)
           => extCalls[n][key] <= 1

(* C2: a Broadcast delivered to a node that is already in its seenBy is
   neither enqueued nor sent on, and its seenBy and currentHops are left as
   they were received. *)
C2_LoopSuppression ==
    (/\ DeliveredSome
     /\ delivered.msg.type = "broadcast"
     /\ delivered.to \in Range(delivered.msg.seenBy))
    => /\ ~delivered.enq
       /\ delivered.fwd = 0
       /\ delivered.after.seenBy = delivered.msg.seenBy
       /\ delivered.after.currentHops = delivered.msg.currentHops

C2_Witness ==
    /\ DeliveredSome
    /\ delivered.handled
    /\ delivered.msg.type = "broadcast"
    /\ delivered.to = delivered.msg.senderId
    /\ delivered.to \in Range(delivered.msg.seenBy)
    /\ delivered.msg.currentHops < delivered.msg.maxHops

(* C3: a Broadcast received with currentHops >= maxHops is neither enqueued
   nor sent on; no record in a queue or on a link has currentHops > maxHops;
   on the line A-B-C-D the record A broadcast with maxHops = 1 never
   reaches D. *)
C3_HopCap ==
    /\ (DeliveredSome /\ delivered.msg.type = "broadcast"
          /\ delivered.msg.currentHops >= delivered.msg.maxHops)
       => (~delivered.enq /\ delivered.fwd = 0)
    /\ \A e \in Envelopes :
          e.msg.type = "broadcast" => e.msg.currentHops <= e.msg.maxHops
    /\ \A n \in Nodes : \A i \in 1..Len(gossipQueue[n]) :
          gossipQueue[n][i].currentHops <= gossipQueue[n][i].maxHops
    /\ IsLine =>
          /\ \A p \in Nodes : \A i \in 1..Len(links[<<p, "D">>]) :
                LET m == links[<<p, "D">>][i].msg
                IN ~(m.senderId = "A" /\ m.maxHops = 1)
          /\ ~(delivered.to = "D" /\ delivered.msg.senderId = "A"
                 /\ delivered.msg.maxHops = 1)

C3_Witness ==
    /\ IsLine
    /\ delivered.to = "C"
    /\ delivered.from = "B"
    /\ delivered.handled
    /\ delivered.msg.senderId = "A"
    /\ delivered.msg.maxHops = 1
    /\ delivered.msg.currentHops = 1
    /\ ~delivered.enq

(* C4: for two nodes with independently generated key pairs and any
   plaintext p, the receiver's decryptMessage of the sender's
   encryptMessage(p, receiver key), given the sender's public key, is p,
   whatever else was encrypted before and in whatever order the ciphertexts
   are decrypted. *)
C4_RoundTrip == decrypted.done => decrypted.got = decrypted.want

C4_Witness ==
    /\ decrypted.done
    /\ decrypted.got = decrypted.want
    /\ \E i \in 1..Len(decrypted.want) : decrypted.want[i] > 127
    /\ wire # {}
    /\ keyPair["A"] # keyPair["B"]

(* C5: a record whose payload was encrypted for a key pair other than the
   receiver's is dropped: no extension is invoked for it and it is neither
   enqueued nor forwarded. *)
C5_WrongKeyDropped ==
    (/\ DeliveredSome
     /\ delivered.msg.enc # <<>>
     /\ delivered.msg.enc[Len(delivered.msg.enc)] # delivered.to)
    => (~ExtInvoked /\ ~delivered.enq /\ delivered.fwd = 0)

(* C6: a Resonance emitted with resonate(intent, s) is dispatched to the
   receiver's extensions if and only if s > 0.5. *)
C6_ResonanceFiltered ==
    (/\ DeliveredSome
     /\ delivered.handled
     /\ delivered.msg.type = "resonance"
     /\ delivered.msg.nonce \in DOMAIN resonated)
    => (ExtInvoked <=> resonated[delivered.msg.nonce] > ResonanceThreshold)

(* C7: processGossipQueue never sends a record whose ttl had elapsed when it
   was dequeued. *)
C7_NoExpiredGossip ==
    \A e \in Envelopes : e.via = "gossip" => ~isMessageExpired(e.msg, e.sentAt)

(* C8: whenever connectToPeer(p, key) returns true, p is in a sending
   state. *)
C8_ConnectTrueIsSending ==
    (ret.op = "connectToPeer" /\ ret.result = "true")
    => peers[ret.node][ret.peer].state \in SendingStates

(* C9: when connectToPeer returns false the peer is in Error, a
   disconnected event for it was emitted, and it is in no sending state. *)
C9_ConnectFailureSurfaced ==
    (ret.op = "connectToPeer" /\ ret.result = "false")
    => /\ peers[ret.node][ret.peer].state = "error"
       /\ \E i \in 1..Len(emitted) :
             emitted[i].type = "disconnected" /\ emitted[i].peer = ret.peer
       /\ peers[ret.node][ret.peer].state \notin SendingStates

(* C10: connectToPeer with an id that fails validateNodeId (the ids of
   BadIds) throws and changes nothing: no peer record, connection entry,
   transport or heartbeat is created and no event is emitted. *)
C10_InvalidIdNoEffect ==
    [][(ret'.op = "connectToPeer" /\ ret'.peer \in BadIds)
          => /\ ret'.result = "throws"
             /\ emitted' = <<>>
             /\ UNCHANGED <<peers, peerOrder, connections, sockets,
                            heartbeatTimers, gossipQueue, messageHistory,
                            links, extCalls>>]_vars

C10_Witness ==
    /\ ret.op = "connectToPeer"
    /\ ret.result = "throws"
    /\ ret.peer \in BadIds
    /\ ~validateNodeId(IdChars(ret.peer))

(* the steps in which node n handed a record to the transport towards p *)
Handed(n, p) == Len(links'[<<n, p>>]) > Len(links[<<n, p>>])

MaySend(n, p) == Known(n, p) /\ peers[n][p].state \in SendingStates

(* C11: sendMessage hands a record to a transport only towards a peer that is
   known and whose state is Connected or Relaying; towards any other peer
   it returns false and nothing is transmitted *)
C11_SendGate ==
    [][/\ \A n \in Actors : \A p \in Nodes : Handed(n, p) => MaySend(n, p)
       /\ (ret'.op = "whisper" /\ ~MaySend(ret'.node, ret'.peer))
             => (ret'.result = "false" /\ links' = links)]_vars

C11_Witness ==
    /\ ret.op = "whisper"
    /\ ret.result = "false"
    /\ Known(ret.node, ret.peer)
    /\ peers[ret.node][ret.peer].state \notin SendingStates

(* the transport towards p is open: it accepts the bytes handed to it *)
TransportOpen(n, p) == sockets[n][p] \in {"rtcOpen", "ws"}

(* C12: sendMessage returns true exactly when the record was handed to the
   peer's transport and the transport accepted it, over an open direct
   channel to a Connected peer as well as over an open relay socket *)
C12_TrueIffAccepted ==
    [][ret'.op = "whisper" =>
          /\ ret'.result = "true" <=> Handed(ret'.node, ret'.peer)
          /\ ret'.result = "true" <=>
                (MaySend(ret'.node, ret'.peer) /\ TransportOpen(ret'.node, ret'.peer))]_vars

(* C13: once a disconnected event about p was emitted, by disconnectFromPeer
   or by a transport failure, p's record is gone from the peer table *)
C13_DisconnectDropsRecord ==
    \A i \in 1..Len(emitted) :
        emitted[i].type = "disconnected" =>
            peers[emitted[i].node][emitted[i].peer] = NoPeer

(* C14: when WhispurrNode.shutdown() has returned no heartbeat interval is
   scheduled any more and the peer, connection and timer tables are empty *)
C14_ShutdownClearsAll ==
    (ret.op = "shutdown" /\ ret.result = "void") =>
        /\ \A p \in Ids : intervals[ret.node][p] = 0
        /\ heartbeatTimers[ret.node] = {}
        /\ \A p \in Ids : ~Known(ret.node, p)
        /\ \A p \in Ids : connections[ret.node][p] = "none"

(* C18: a heartbeat whose Ping could not be sent moves the peer to Error,
   emits disconnected with the reason "Heartbeat failed", stops the peer's
   heartbeat timer and leaves the peer in no sending state *)
C18_HeartbeatFailureIsError ==
    \A i \in 1..Len(emitted) :
        (emitted[i].type = "disconnected" /\ emitted[i].reason = "Heartbeat failed") =>
            /\ peers[emitted[i].node][emitted[i].peer].state = "error"
            /\ emitted[i].peer \notin heartbeatTimers[emitted[i].node]
            /\ ~MaySend(emitted[i].node, emitted[i].peer)

(* C19: every Ping that handleMessage dispatched to the registered handlers
   is answered by a Pong to the pinging peer whose payload is the Ping's
   timestamp *)
C19_PongEchoesTimestamp ==
    (delivered.handled /\ delivered.msg.type = "ping" /\ ~isShuttingDown[delivered.to]) =>
        /\ delivered.ponged
        /\ delivered.pongPayload = ToString(delivered.msg.timestamp)

(* C20: no node ever holds more peer records than the configured
   maxConnections *)
C20_PeersWithinMaxConnections ==
    \A n \in Actors : Cardinality({p \in Ids : Known(n, p)}) <= MaxConnections

(* C15: one call of Whispurr.shutdown() invokes cleanup() exactly once on
   every registered extension, also on those behind one whose cleanup
   throws; it does not throw itself and still shuts the node down *)
C15_CleanupEachOnce ==
    [][ret'.op = "shutdown" =>
          /\ \A e \in Exts :
                cleanupCalls'[ret'.node][e] =
                    cleanupCalls[ret'.node][e]
                        + (IF e \in Range(extensions[ret'.node]) THEN 1 ELSE 0)
          /\ ret'.result = "void"
          /\ isShuttingDown'[ret'.node]
          /\ \A p \in Ids : peers'[ret'.node][p] = NoPeer]_vars

C15_Witness ==
    /\ ret.op = "shutdown"
    /\ Len(extensions[ret.node]) = 2
    /\ extensions[ret.node][1] \in throwing[ret.node]
    /\ cleanupCalls[ret.node][extensions[ret.node][2]] = 1

(* how often handleMessage of extension e was invoked at n with record m *)
Invocations(c, n, e, m) ==
    IF <<e, m.senderId, m.nonce>> \in DOMAIN c[n]
    THEN c[n][<<e, m.senderId, m.nonce>>] ELSE 0

(* C16: a throw of one extension's handleMessage is caught: each pass of the
   routing still hands the record to every registered extension that
   supports its type, and the node has processed the record *)
C16_ThrowingExtensionIsolated ==
    [][(delivered'.handled /\ ~isShuttingDown[delivered'.to]) =>
          \A e \in Range(extensions[delivered'.to]) :
              delivered'.msg.type \in ExtSupports(e) =>
                  Invocations(extCalls', delivered'.to, e, delivered'.msg) =
                      Invocations(extCalls, delivered'.to, e, delivered'.msg)
                          + delivered'.ext]_vars

C16_Witness ==
    /\ delivered.handled
    /\ delivered.ext > 0
    /\ extensions[delivered.to] = <<"e1", "e2">>
    /\ "e1" \in throwing[delivered.to]
    /\ Invocations(extCalls, delivered.to, "e2", delivered.msg) > 0

(* C17: registerExtension with an id already registered fails and changes
   nothing (the registry, activeExtensions, no initialize() of the rejected
   object); unregisterExtension of an id not registered fails and changes
   nothing *)
C17_RegistryRejections ==
    [][/\ (ret'.op = "registerExtension" /\ extObject[ret'.node][ret'.peer] # 0) =>
             /\ ret'.result = "throws"
             /\ UNCHANGED <<extensions, extObject, activeExtensions, extInitialized,
                            cleanupCalls>>
       /\ (ret'.op = "unregisterExtension" /\ extObject[ret'.node][ret'.peer] = 0) =>
             /\ ret'.result = "throws"
             /\ UNCHANGED <<extensions, extObject, activeExtensions, extInitialized,
                            cleanupCalls>>]_vars

C17_Witness ==
    /\ ret.op = "registerExtension"
    /\ ret.result = "throws"
    /\ extObject[ret.node][ret.peer] = 1
    /\ <<ret.peer, 2>> \notin extInitialized[ret.node]

(* C21: with enableAutoPropagation off nothing leaves the gossip queue: no
   record in flight was sent by a pass over the queue of such a node *)
C21_NoPropagationWhenOff ==
    \A n \in Nodes : \A p \in Nodes :
        \A i \in 1..Len(links[<<n, p>>]) :
            links[<<n, p>>][i].via = "gossip" => enableAutoPropagation[n]

(* C23: the record Whispurr.broadcast(content, intent, maxHops) puts on the
   gossip queue has maxHops equal to the argument, for every argument >= 0,
   currentHops 0, seenBy exactly <<sender>> and ttl gossip.messageTTL *)
C23_BroadcastRecord ==
    [][\A c \in Contents, i \in Intents, h \in 0..MaxHopsArg :
          broadcast("A", c, i, h) =>
              LET m == gossipQueue'["A"][Len(gossipQueue'["A"])]
              IN /\ m.type = "broadcast"
                 /\ m.maxHops = h
                 /\ m.currentHops = 0
                 /\ m.seenBy = <<"A">>
                 /\ m.ttl = MessageTTL]_vars

(* C24: broadcast and resonate return the number of peers in a sending
   state whose send was accepted (0 without a connected peer, never more
   than the connected peers) and add exactly that number to messagesSent;
   whisper adds one to messagesSent exactly when it returns true *)
C24_CountsAndStats ==
    [][/\ ret'.op \in {"broadcast", "resonate"} =>
             /\ ret'.result =
                   Cardinality({p \in Nodes : MaySend(ret'.node, p) /\ Handed(ret'.node, p)})
             /\ ret'.result = Outgoing(links', ret'.node) - Outgoing(links, ret'.node)
             /\ ret'.result <= Cardinality(getConnectedPeers(ret'.node))
             /\ messagesSent'[ret'.node] = messagesSent[ret'.node] + ret'.result
       /\ ret'.op = "whisper" =>
             messagesSent'[ret'.node] =
                 messagesSent[ret'.node] + (IF ret'.result = "true" THEN 1 ELSE 0)]_vars

C24_Witness ==
    /\ ret.op = "broadcast"
    /\ ret.result >= 1
    /\ ret.result < Cardinality(getConnectedPeers(ret.node))
    /\ messagesSent[ret.node] > ret.result

(* the broadcast records waiting in a gossip queue or in flight on a link *)
BroadcastRecords ==
    {r \in UNION {Range(gossipQueue[n]) : n \in Nodes}
           \cup UNION {{links[pr][i].msg : i \in 1..Len(links[pr])} : pr \in Nodes \X Nodes} :
        r.type = "broadcast"}

(* C26: every broadcast record, in every queue and on every link, has
   currentHops <= maxHops, its sender in seenBy, no node twice in seenBy,
   and as many entries in seenBy as currentHops + 1 *)
C26_BroadcastInvariants ==
    \A r \in BroadcastRecords :
        /\ r.currentHops <= r.maxHops
        /\ r.senderId \in Range(r.seenBy)
        /\ \A i \in 1..Len(r.seenBy) : \A j \in 1..Len(r.seenBy) :
              r.seenBy[i] = r.seenBy[j] => i = j
        /\ Len(r.seenBy) = r.currentHops + 1

C26_Witness ==
    \E r \in BroadcastRecords : r.currentHops >= 2 /\ Len(r.seenBy) = 3

(* C27: a record whose (senderId, nonce) is already in the node's history
   is dropped without effect: in particular it is not put on the gossip
   queue, so a node enqueues a given broadcast at most once *)
C27_DuplicateDropped ==
    [][delivered'.enq =>
          MessageId(delivered'.msg) \notin DOMAIN messageHistory[delivered'.to]]_vars

(* C28: every record handed to a peer carries the plaintext encrypted
   exactly once, under that peer's key *)
C28_EncryptedOnce ==
    \A n \in Nodes : \A p \in Nodes :
        \A i \in 1..Len(links[<<n, p>>]) :
            links[<<n, p>>][i].msg.enc = <<peers[n][p].publicKey>>

(* C29: a record that arrives from a peer whose state is neither Connected
   nor Relaying is not delivered: no message event, no update of lastSeen,
   no handler and no extension invoked *)
C29_ReceiveGate ==
    [][(delivered'.to # "none" /\ ~MaySend(delivered'.to, delivered'.from)) =>
          /\ ~delivered'.handled
          /\ emitted' = <<>>
          /\ peers'[delivered'.to][delivered'.from] = peers[delivered'.to][delivered'.from]
          /\ extCalls' = extCalls]_vars

(* C30: once shutdown() has returned, no transport the node ever opened is
   still open *)
C30_TransportsClosed ==
    (ret.op = "shutdown" /\ ret.result = "void") =>
        \A p \in Ids : sockets[ret.node][p] \notin {"rtc", "rtcOpen", "ws"}

(* C22: every record createMessage produces, empty payloads included, comes
   back from serializeMessage and deserializeMessage structurally equal and
   passes validateMessage *)
C22_RoundTripValid ==
    roundTrip.done => (roundTrip.back = roundTrip.m /\ roundTrip.valid)

(* C25: the peer table never holds more than maxPeers records; addPeer of
   a new id on a full table removes exactly one peer, one seen least
   recently, disconnecting it if it was connected, and inserts the new one;
   addPeer of a known id removes nobody *)
C25_BoundedEviction ==
    [][/\ Cardinality(PmKnown(pmPeers')) <= MaxPeers
       /\ Len(pmOrder') = Cardinality(PmKnown(pmPeers'))
       /\ (ret'.op = "addPeer" /\ ret'.result = "added"
              /\ Cardinality(PmKnown(pmPeers)) = MaxPeers) =>
             \E old \in PmKnown(pmPeers) :
                 /\ \A q \in PmKnown(pmPeers) :
                        pmPeers[old].lastSeen <= pmPeers[q].lastSeen
                 /\ PmKnown(pmPeers') = (PmKnown(pmPeers) \ {old}) \cup {ret'.peer}
                 /\ pmPeers[old].connected =>
                        Event("A", "peer:disconnected", old, "Disconnected")
                            \in Range(emitted')
       /\ (ret'.op = "addPeer" /\ ret'.result = "updated") =>
             PmKnown(pmPeers') = PmKnown(pmPeers)]_vars

(* a full table whose first-inserted peer was seen most recently has just
   taken a new peer *)
C25_Witness ==
    /\ ret.op = "addPeer" /\ ret.result = "added"
    /\ Cardinality(PmKnown(pmPeers)) = MaxPeers
    /\ Event("A", "peer:disconnected", "B", "Disconnected") \in Range(emitted)
    /\ \E q \in PmKnown(pmPeers) \ {ret.peer} :
           /\ pmPeers[q].lastSeen < now
           /\ pmOrder[1] = q

(* C31: a Connected peer whose pings are accepted by the relay socket and
   that produces no traffic at all eventually leaves the Connected state *)
C31_HeartbeatTimeout ==
    \A p \in SessionPeers("A") :
        (peers["A"][p].state = "connected" /\ connections["A"][p] = "ws"
           /\ sockets["A"][p] = "ws")
        ~> (peers["A"][p].state # "connected")

(* C32: whenever an extension's handleMessage is invoked for a record, every
   Ping that arrived before that record from the same peer has had its Pong
   written to the transport *)
C32_PingAnsweredFirst ==
    \A j \in 1..Len(asyncLog) :
        asyncLog[j].what = "ext" =>
            \A k \in 1..(asyncLog[j].rec - 1) :
                tasks[k].msg.type = "ping" =>
                    \E i \in 1..(j - 1) :
                        asyncLog[i].what = "pong" /\ asyncLog[i].rec = k

(* C33: each extension's handleMessage is invoked for the records of one
   peer in the order in which they arrived: it is not invoked for a record
   after it was invoked for a later one, unless it had already been invoked
   for that record before (a second dispatch of the same record) *)
C33_PerPeerFifo ==
    \A i \in 1..Len(asyncLog) : \A j \in (i + 1)..Len(asyncLog) :
        (asyncLog[i].what = "ext" /\ asyncLog[j].what = "ext"
           /\ asyncLog[i].ext = asyncLog[j].ext
           /\ asyncLog[i].rec > asyncLog[j].rec)
        => \E i0 \in 1..(i - 1) :
              /\ asyncLog[i0].what = "ext"
              /\ asyncLog[i0].ext = asyncLog[j].ext
              /\ asyncLog[i0].rec = asyncLog[j].rec

(* C34: a record that node `to` has handled before and that is still
   unexpired when it arrives again is still in messageHistory, so that
   handleIncomingMessage does not accept it a second time *)
C34_DedupRetention ==
    [][(/\ delivered'.to # "none"
        /\ delivered'.handled
        /\ ~isMessageExpired(delivered'.msg, now)
        /\ \E e \in Exts :
              <<e, delivered'.msg.senderId, delivered'.msg.nonce>>
                  \in DOMAIN extCalls[delivered'.to])
       => MessageId(delivered'.msg) \in DOMAIN messageHistory[delivered'.to]]_vars

(* C35: validateMessage accepts exactly the records with all common fields,
   a known kind, non-negative timestamp and ttl, now - timestamp <= ttl and
   the kind's own rule; an expired record is invalid; validation leaves the
   record as it was *)
C35_ValidExactly ==
    LET f == validation.f
        A == validation.absent
        t == validation.at
        claimed ==
            /\ CommonFields \cap A = {}
            /\ \A x \in {"senderId", "resonanceKey", "whisperTag", "payload",
                          "version"} : f[x] # ""
            /\ f.nonce # 0
            /\ f.type \in MessageTypes
            /\ f.timestamp >= 0 /\ f.ttl >= 0
            /\ t - f.timestamp <= f.ttl
            /\ f.type = "whisper" => ~FalsyStr(f, A, "targetId")
            /\ f.type = "broadcast" =>
                  /\ {"maxHops", "currentHops", "seenBy"} \cap A = {}
                  /\ f.maxHops >= 0 /\ f.currentHops >= 0
            /\ f.type = "resonance" =>
                  /\ ~FalsyStr(f, A, "intent")
                  /\ "strength" \notin A
                  /\ f.strength >= 0 /\ f.strength <= FullStrength
    IN validation.done =>
          /\ validation.isValid <=> claimed
          /\ isFieldsExpired(f, A, t) => ~validation.isValid
          /\ validation.after = f

(* C36: a PING from a known connected peer is answered in the same step with
   a PONG that echoes the ping's timestamp and pingId, without a 'message'
   event; the PONG makes the pinging side set latency to now minus the
   echoed timestamp, which is the sum of the two one-way delays *)
C36_PingPongLatency ==
    [][/\ (ret'.op = "handlePing" /\ PmCanSend(pmRemote[ret'.node])) =>
             LET ping == pmWire[NextFor("A", ret'.node)].msg
                 pong == pmWire'[Len(pmWire')]
             IN /\ Len(pmWire') = Len(pmWire)
                /\ pong.from = ret'.node /\ pong.to = "A" /\ pong.msg.type = "pong"
                /\ pong.msg.payload.pingId = ping.payload.pingId
                /\ pong.msg.payload.timestamp = ping.timestamp
                /\ \A i \in 1..Len(emitted') : emitted'[i].type # "message"
       /\ (ret'.op = "handlePong" /\ pmPeers[ret'.peer].known) =>
             LET pong == pmWire[NextFor(ret'.peer, "A")]
             IN /\ pmPeers'[ret'.peer].latency =
                      now - GetTime(pong.msg.payload.timestamp)
                /\ pmPeers'[ret'.peer].latency = (now - pong.sentAt) + pong.pingDelay
                /\ \A i \in 1..Len(emitted') : emitted'[i].type # "message"]_vars

(* A has measured a round trip of two ticks to B: one tick each way *)
C36_Witness ==
    /\ ret.op = "handlePong" /\ ret.peer = "B"
    /\ pmPeers["B"].latency = 2
    /\ pmPeers["B"].lastPing = now - 2
    /\ pmRemote["B"].lastSeen = now - 1

(* ---------------------------------------------------------------- start-up *)
(* Whispurr.initialize(): throws when already initialized; otherwise installs
   the node's event and message handlers, schedules the gossip interval (when
   enableAutoPropagation) and the obfuscation interval (enabled by default),
   storing each new handle over whatever the object held, and then awaits
   every registered extension's initialize() in registry order.  failAt is
   the position of the first extension whose initialize() throws, 0 if none
   does: the catch block logs and rethrows, and undoes nothing. *)
initialize(n, failAt) ==
    /\ calls < MaxCalls
    /\ calls' = calls + 1
    /\ failAt \in 0..Len(extensions[n])
    /\ IF isInitialized[n]
       THEN /\ failAt = 0
            /\ ret' = Ret("initialize", n, NoId, "throws")
            /\ UNCHANGED <<startup, extInitialized, isInitialized>>
       ELSE /\ startup' =
                  [startup EXCEPT ![n] =
                      [handlerSets |-> @.handlerSets + 1,
                       gossipScheduled |-> IF enableAutoPropagation[n]
                                           THEN @.gossipScheduled + 1
                                           ELSE @.gossipScheduled,
                       gossipHeld |-> enableAutoPropagation[n] \/ @.gossipHeld,
                       obfuscationScheduled |-> @.obfuscationScheduled + 1,
                       obfuscationHeld |-> TRUE]]
            /\ LET last == IF failAt = 0 THEN Len(extensions[n]) ELSE failAt - 1
               IN extInitialized' =
                     [extInitialized EXCEPT ![n] =
                         @ \cup {<<extensions[n][i], extObject[n][extensions[n][i]]>> :
                                    i \in 1..last}]
            /\ IF failAt = 0
               THEN /\ ret' = Ret("initialize", n, NoId, "void")
                    /\ isInitialized' = [isInitialized EXCEPT ![n] = TRUE]
               ELSE /\ ret' = Ret("initialize", n, NoId, "throws")
                    /\ UNCHANGED isInitialized
    /\ emitted' = <<>>
    /\ delivered' = NoDelivery
    /\ UNCHANGED <<peers, peerOrder, connections, sockets, heartbeatTimers,
                   intervals, relayServers, cryptoVars, extensions, gossipQueue,
                   messageHistory, links, now, nextNonce, extCalls, resonated,
                   isShuttingDown, extObject, activeExtensions, cleanupCalls,
                   throwing, auxVars, messagesSent>>

StartupNext ==
    \/ \E failAt \in 0..2 : initialize("A", failAt)
    \/ shutdown("A")
    \/ Tick

(* the state after construction and any registerExtension calls made before
   start-up: nothing installed, nothing scheduled, isInitialized false *)
InitStartup ==
    /\ peers = [n \in Nodes |-> [p \in Ids |-> NoPeer]]
    /\ peerOrder = [n \in Nodes |-> <<>>]
    /\ connections = [n \in Nodes |-> [p \in Ids |-> "none"]]
    /\ sockets = [n \in Nodes |-> [p \in Ids |-> "none"]]
    /\ heartbeatTimers = [n \in Nodes |-> {}]
    /\ relayServers = [n \in Nodes |-> IF n \in Actors THEN 1 ELSE 0]
    /\ extensions \in {[n \in Nodes |-> IF n = "A" THEN r ELSE <<>>] :
                          r \in {<<>>, <<"e1">>, <<"e1", "e2">>, <<"e2", "e1">>}}
    /\ gossipQueue = [n \in Nodes |-> <<>>]
    /\ messageHistory = [n \in Nodes |-> <<>>]
    /\ links = [pr \in Nodes \X Nodes |-> <<>>]
    /\ now = 1
    /\ nextNonce = 1
    /\ calls = 0
    /\ extCalls = [n \in Nodes |-> <<>>]
    /\ resonated = <<>>
    /\ delivered = NoDelivery
    /\ ret = NoRet
    /\ emitted = <<>>
    /\ CryptoIdle
    /\ intervals = [n \in Nodes |-> [p \in Ids |-> 0]]
    /\ isShuttingDown = [n \in Nodes |-> FALSE]
    /\ isInitialized = [n \in Nodes |-> FALSE]
    /\ extObject = [n \in Nodes |-> [e \in Exts |->
                       IF e \in Range(extensions[n]) THEN 1 ELSE 0]]
    /\ activeExtensions = extensions
    /\ extInitialized = [n \in Nodes |-> {}]
    /\ cleanupCalls = [n \in Nodes |-> [e \in Exts |-> 0]]
    /\ throwing = [n \in Nodes |-> {}]
    /\ enableAutoPropagation \in {[n \in Nodes |-> b] : b \in BOOLEAN}
    /\ startup = [n \in Nodes |-> NotStarted]
    /\ StatsIdle

SpecStartup == InitStartup /\ [][StartupNext]_vars

(* C37: a failed initialize() aborts cleanly (the caller gets the error,
   isInitialized stays false, no gossip or obfuscation timer remains
   scheduled), and an initialize() that succeeds leaves exactly one set of
   node handlers, exactly one gossip timer when auto-propagation is on, and
   one obfuscation timer. *)
C37_CleanStartupAbort ==
    [][\A n \in Actors :
          (ret'.op = "initialize" /\ ret'.node = n /\ calls' = calls + 1
             /\ ~isInitialized[n])
          => IF ret'.result = "throws"
             THEN /\ ~isInitialized'[n]
                  /\ startup'[n].gossipScheduled = 0
                  /\ startup'[n].obfuscationScheduled = 0
             ELSE /\ isInitialized'[n]
                  /\ startup'[n].handlerSets = 1
                  /\ startup'[n].gossipScheduled =
                        (IF enableAutoPropagation[n] THEN 1 ELSE 0)
                  /\ startup'[n].obfuscationScheduled = 1]_vars

(* C38: at every moment at most one heartbeat interval is scheduled per peer,
   and every scheduled interval is the one heartbeatTimers records for that
   peer, also after a second 'connected' envelope from the relay or a channel
   opening after a relay 'connected' *)
C38_OneHeartbeatPerPeer ==
    \A n \in Nodes : \A p \in Ids :
        /\ intervals[n][p] <= 1
        /\ intervals[n][p] > 0 => p \in heartbeatTimers[n]

(* the disconnected events about peer p among the events a step emitted *)
DisconnectedAbout(ev, n, p) ==
    {i \in 1..Len(ev) : ev[i].type = "disconnected" /\ ev[i].node = n /\ ev[i].peer = p}

(* C40: each loss of a peer produces exactly one disconnected event:
   disconnectFromPeer(p) on a connected peer, or the close of its transport,
   emits one disconnected event for p, and no step emits one for a peer that
   is unknown or already disconnected *)
C40_OneDisconnectedPerLoss ==
    [][\A n \in Actors : \A p \in Ids :
          LET k == Cardinality(DisconnectedAbout(emitted', n, p))
              lost == \/ ret'.op = "disconnectFromPeer" /\ ret'.node = n /\ ret'.peer = p
                      \/ /\ sockets[n][p] \in {"rtcOpen", "ws"}
                         /\ sockets'[n][p] \in {"none", "wsClosed"}
                         /\ ret'.op # "shutdown"
          IN /\ (peers[n][p].state = "connected" /\ lost) => k = 1
             /\ (~Known(n, p) \/ peers[n][p].state = "disconnected") => k = 0]_vars

(* ------------------------------------------------------ gossip termination *)
(* the gossip interval of every node keeps firing and the relay keeps
   delivering what is in flight; broadcast() is the caller's choice *)
SpecGossipFair ==
    /\ InitGossip
    /\ [][GossipNext]_vars
    /\ \A n \in Nodes : WF_vars(GossipTick(n))
    /\ \A from \in Nodes : \A to \in Nodes \ {from} : WF_vars(Deliver(from, to))

(* nothing is in flight and no gossip tick has anything to send *)
Quiescent ==
    /\ \A pr \in Nodes \X Nodes : links[pr] = <<>>
    /\ \A n \in Nodes : \/ gossipQueue[n] = <<>>
                        \/ getConnectedPeers(n) = {}
                        \/ ~enableAutoPropagation[n]

(* C39: after broadcast() with a finite maxHops and no further broadcasts,
   under fair gossip ticks and deliveries propagation eventually quiesces:
   from some point on no record is in flight or waiting to be sent *)
C39_GossipTerminates == <>[]Quiescent

(* a broadcast was forwarded by a node other than its originator, reached a
   third node, and the network is quiet again *)
C39_Witness ==
    /\ Quiescent
    /\ nextNonce > 1
    /\ \E n \in Nodes \ {"A"} : messagesSent[n] > 0
    /\ Cardinality({n \in Nodes \ {"A"} : messageHistory[n] # <<>>}) >= 2

========================================================================
